---- MODULE Spec2Model ----
(***************************************************************************)
(* Corpus Cataloger: the duplicate-detection engine (catalog/dedupe.py),   *)
(* its pruner and the dedupe command line, over the catalog's files table  *)
(* (catalog/db.py) and a small filesystem.                                 *)
(*                                                                         *)
(* Paths are sequences of one-character strings, file contents are         *)
(* sequences of bytes, digests are tuples <<algorithm, input bytes...>>    *)
(* (an injective digest: the collision-freedom of xxh64/SHA-256/BLAKE3 on  *)
(* the inputs of the model), NULL is the empty tuple.                      *)
(***************************************************************************)
EXTENDS Integers, Sequences, FiniteSets, TLC

VARIABLES
    rows,       \* the files table: a set of row records, keyed by file_id
    disk,       \* the filesystem: path -> [exists, data, readable]
    disk0,      \* the filesystem when the current prune call started
    rows0,      \* the files table when the current prune call started
    prune,      \* the running prune_hash_duplicates call (its locals)
    durable,    \* the files table as last committed (rows is the view of the
                \* connection of the running detect_duplicates call)
    cancelled,  \* cancelled["flag"] of the running detect_duplicates call
    det,        \* the running detect_duplicates call (its locals)
    cli,        \* the running command-line invocation (its locals)
    limiter     \* the ByteRateLimiter shared by the hashing threads, the
                \* monotonic clock and the threads inside acquire()

vars == <<rows, disk, disk0, rows0, prune, durable, cancelled, det, cli,
          limiter>>

pruneVars == <<disk0, rows0, prune>>
detVars == <<durable, cancelled, det>>

NULL == <<>>

----------------------------------------------------------------------------
(* Bounds of the model *)

\* number of rows of the files table
MaxRows == 3

FileIds == 1..MaxRows

----------------------------------------------------------------------------
(* Strings: characters, lower(), byte order *)

Chars == {"/", ".", "A", "a", "b", "t", "u", "x", "y"}

\* code point of a character (the order Python and SQLite compare text by)
CharCode(c) ==
    CASE c = "." -> 46 [] c = "/" -> 47 [] c = "A" -> 65 [] c = "a" -> 97
      [] c = "b" -> 98 [] c = "t" -> 116 [] c = "u" -> 117 [] c = "x" -> 120
      [] c = "y" -> 121

\* str.lower() / SQL LOWER() on one character
LowerChar(c) == IF c = "A" THEN "a" ELSE c

\* str.lower() on a string
Lower(s) == [i \in 1..Len(s) |-> LowerChar(s[i])]

RECURSIVE StrLess(_, _)
\* s < t in Python's string order (lexicographic by code point)
StrLess(s, t) ==
    IF s = <<>> THEN t # <<>>
    ELSE IF t = <<>> THEN FALSE
    ELSE IF s[1] = t[1] THEN StrLess(Tail(s), Tail(t))
    ELSE CharCode(s[1]) < CharCode(t[1])

\* the path the walker recorded for the i-th file of the model
PathOf(i) ==
    CASE i = 1 -> <<"a", "/", "x", ".", "t">>
      [] i = 2 -> <<"A", "/", "y", ".", "t">>
      [] i = 3 -> <<"b", "/", "x", ".", "t">>
      [] i = 4 -> <<"b", "/", "y", ".", "t">>
      [] OTHER -> <<"a", "/", "y", ".", "t">>

\* the same file name with the extension .u
AltPathOf(i) == [PathOf(i) EXCEPT ![Len(PathOf(i))] = "u"]

\* the paths of the model's filesystem
Paths == {PathOf(i) : i \in FileIds}

RECURSIVE LastIndexOf(_, _)
\* index of the last occurrence of character c in s, 0 when absent
LastIndexOf(s, c) ==
    IF s = <<>> THEN 0
    ELSE IF s[Len(s)] = c THEN Len(s)
    ELSE LastIndexOf(SubSeq(s, 1, Len(s) - 1), c)

\* Path.name: the part after the last separator
PathName(path) == SubSeq(path, LastIndexOf(path, "/") + 1, Len(path))

\* Path.suffix.lower(): the extension with its dot, '' when there is none
PathSuffix(path) ==
    LET nm == PathName(path)
        k  == LastIndexOf(nm, ".")
    IN  IF k <= 1 THEN <<>> ELSE Lower(SubSeq(nm, k, Len(nm)))

----------------------------------------------------------------------------
(* Timestamps *)

\* the mtime_utc strings of the model: the scanner's utc() writes an ISO
\* string with a +00:00 offset; naive strings with a Z suffix and the empty
\* string are admitted by the schema (TEXT NOT NULL)
MtimeVals == {"", "2020-01-01T00:00:00+00:00", "2021-01-01T00:00:00Z",
              "2022-01-01T00:00:00+00:00"}

\* dedupe.py parse_ts: '' -> 0.0; a trailing Z is replaced by +00:00; the
\* result is the POSIX timestamp (here in years since 2019)
parse_ts(value) ==
    CASE value = "" -> 0
      [] value = "2020-01-01T00:00:00+00:00" -> 1
      [] value = "2021-01-01T00:00:00Z" -> 2
      [] value = "2022-01-01T00:00:00+00:00" -> 3
      [] OTHER -> 0

\* rank of an mtime_utc string in SQLite's text order (ORDER BY mtime_utc)
MtimeTextRank(value) ==
    CASE value = "" -> 0
      [] value = "2020-01-01T00:00:00+00:00" -> 1
      [] value = "2021-01-01T00:00:00Z" -> 2
      [] value = "2022-01-01T00:00:00+00:00" -> 3
      [] OTHER -> 0

----------------------------------------------------------------------------
(* Digests *)

\* hashlib.sha256 over the whole byte string
Sha256Of(data) == <<"sha256">> \o data

\* blake3.blake3 over the whole byte string
Blake3Of(data) == <<"blake3">> \o data

\* util.quick_hash(path, n): xxh64 over str(size) || head || tail, where
\* size is the file's size on disk and the tail is read only when size > n
quick_hash(data, n) ==
    LET size == Len(data)
        head == SubSeq(data, 1, IF n < size THEN n ELSE size)
        tail == IF size > n
                THEN SubSeq(data, (IF size - n > 0 THEN size - n ELSE 0) + 1, size)
                ELSE <<>>
    IN  <<"xxh64", size>> \o head \o tail

----------------------------------------------------------------------------
(* Path filters *)

RECURSIVE rstrip_sep(_)
\* prefix.rstrip('\\/')
rstrip_sep(prefix) ==
    IF prefix # <<>> /\ prefix[Len(prefix)] = "/"
    THEN rstrip_sep(SubSeq(prefix, 1, Len(prefix) - 1))
    ELSE prefix

\* path LIKE (prefix || '%'): SQLite's LIKE ignores ASCII case
LikePrefix(path, prefix) ==
    /\ Len(prefix) <= Len(path)
    /\ Lower(SubSeq(path, 1, Len(prefix))) = Lower(prefix)

\* the WHERE fragment of build_path_filter_sql applied to one path
build_path_filter_sql(include_prefixes, exclude_prefixes, path) ==
    /\ (include_prefixes # {} =>
            \E p \in include_prefixes : LikePrefix(path, rstrip_sep(p)))
    /\ (exclude_prefixes # {} =>
            ~ \E p \in exclude_prefixes : LikePrefix(path, rstrip_sep(p)))

----------------------------------------------------------------------------
(* Rows of the files table *)

\* a row of the files table with its hash columns empty, in state pending
NewRow(fid, path, size, mtime) ==
    [file_id |-> fid, path_abs |-> path, name |-> PathName(path),
     ext |-> PathSuffix(path), size_bytes |-> size, mtime_utc |-> mtime,
     quick_hash |-> NULL, h1 |-> NULL, h2 |-> NULL, sha256 |-> NULL,
     blake3 |-> NULL, state |-> "pending", error_code |-> "",
     error_msg |-> ""]

Active(r) == r.state \notin {"error", "missing"}

\* Path(p).exists()
Exists(d, path) == path \in DOMAIN d /\ d[path].exists

----------------------------------------------------------------------------
(* Configuration of the engine (sizes scaled to the contents of the model) *)

\* cfg.dedupe.min_file_size (spec default 1 024)
min_file_size == 1

\* cfg.dedupe.min_duplicate_count (spec default 2)
min_duplicate_count == 2

\* cfg.dedupe.small_file_threshold (131 072, scaled)
small_file_threshold == 2

\* cfg.dedupe.quick_hash_bytes (262 144, scaled)
cfg_quick_hash_bytes == 2

\* the 64 KiB cap of network-friendly mode and of the default sample_bytes
\* (scaled)
Cap64K == 1

\* cfg.scanner.io_chunk_bytes, the scanner's quick-hash window (65 536,
\* scaled)
io_chunk_bytes == 1

\* cfg.dedupe.max_workers (8, scaled)
cfg_max_workers == 3

\* the ceiling of network-friendly mode on the worker count (2, scaled
\* below PAGE and cfg_max_workers)
NetworkFriendlyWorkers == 1

\* PAGE of the stage loops (10 000 and 5 000, scaled)
PAGE == 2

\* batch_size_qh and batch_size_sha (500, scaled)
batch_size == 2

Min(a, b) == IF a < b THEN a ELSE b
Max(a, b) == IF a > b THEN a ELSE b

\* workers = max_workers or cfg.dedupe.max_workers; network-friendly mode
\* caps it only when max_workers is None (0 here)
Workers(flags) ==
    LET w == IF flags.max_workers # 0 THEN flags.max_workers ELSE cfg_max_workers
    IN  IF flags.network_friendly /\ flags.max_workers = 0
        THEN Min(w, NetworkFriendlyWorkers) ELSE w

\* quick_hash_bytes after the network-friendly cap
QuickHashBytes(flags) ==
    IF flags.network_friendly THEN Min(cfg_quick_hash_bytes, Cap64K)
    ELSE cfg_quick_hash_bytes

\* sample_bytes: min(cfg.dedupe.quick_hash_bytes, 64 KiB) when not given
SampleBytes(flags) == Min(cfg_quick_hash_bytes, Cap64K)

----------------------------------------------------------------------------
(* Per-file operations of the stages *)

Readable(d, path) == Exists(d, path) /\ d[path].readable

NoResult ==
    [status |-> "none", file_id |-> 0, quick_hash |-> NULL, sha256 |-> NULL,
     blake3 |-> NULL, h |-> NULL, error |-> ""]

\* compute_quick_hash(row): missing, error (any exception) or the quick hash
\* of the file over the window n (the throttled branch hashes the same bytes)
compute_quick_hash(row, d, n) ==
    IF ~ Exists(d, row.path_abs)
    THEN [NoResult EXCEPT !.status = "missing", !.file_id = row.file_id,
                          !.error = "File not found on disk"]
    ELSE IF ~ Readable(d, row.path_abs)
    THEN [NoResult EXCEPT !.status = "error", !.file_id = row.file_id,
                          !.error = "Permission denied"]
    ELSE [NoResult EXCEPT !.status = "success", !.file_id = row.file_id,
                          !.quick_hash = quick_hash(d[row.path_abs].data, n)]

\* the quick hash the small-file path of compute_sha256 builds while it
\* streams the file: str(size_bytes) of the row, the first n bytes, and the
\* last n bytes when size_bytes > n
SmallFileQuickHash(data, size_bytes, n) ==
    LET len  == Len(data)
        head == SubSeq(data, 1, Min(n, len))
        tail == IF n > 0 /\ len > 0 /\ size_bytes > n
                THEN SubSeq(data, Max(0, len - n) + 1, len)
                ELSE <<>>
    IN  <<"xxh64", size_bytes>> \o head \o tail

\* compute_sha256(row): the full hash of one candidate
compute_sha256(row, d, flags) ==
    IF ~ Exists(d, row.path_abs)
    THEN [NoResult EXCEPT !.status = "missing", !.file_id = row.file_id,
                          !.error = "File not found on disk"]
    ELSE IF ~ Readable(d, row.path_abs)
    THEN [NoResult EXCEPT !.status = "error", !.file_id = row.file_id,
                          !.error = "Permission denied"]
    ELSE IF row.size_bytes < small_file_threshold /\ row.quick_hash = NULL
    THEN [NoResult EXCEPT !.status = "success", !.file_id = row.file_id,
            !.sha256 = Sha256Of(d[row.path_abs].data),
            !.quick_hash = SmallFileQuickHash(d[row.path_abs].data,
                                              row.size_bytes, QuickHashBytes(flags))]
    ELSE IF flags.use_blake3
    THEN [NoResult EXCEPT !.status = "success", !.file_id = row.file_id,
            !.sha256 = Blake3Of(d[row.path_abs].data),
            !.blake3 = Blake3Of(d[row.path_abs].data)]
    ELSE [NoResult EXCEPT !.status = "success", !.file_id = row.file_id,
            !.sha256 = Sha256Of(d[row.path_abs].data)]

\* hash_sample_head(path, k) inside compute_h1: the exception of a failed
\* open or read is raised again (`raise e`)
compute_h1(row, d, k) ==
    IF ~ Readable(d, row.path_abs)
    THEN [NoResult EXCEPT !.status = "exception", !.file_id = row.file_id,
                          !.error = "OSError"]
    ELSE [NoResult EXCEPT !.status = "success", !.file_id = row.file_id,
            !.h = <<"xxh64">> \o SubSeq(d[row.path_abs].data, 1,
                                        Min(k, Len(d[row.path_abs].data)))]

\* the digest column value '' (an empty string, not NULL)
EmptyText == <<"">>

\* hash_sample_tail(path, k, size_bytes) inside compute_h2
compute_h2(row, d, k) ==
    LET read  == Min(k, Max(0, row.size_bytes))
        start == Max(0, row.size_bytes - read)
    IN  IF read = 0
        THEN [NoResult EXCEPT !.status = "success", !.file_id = row.file_id,
                              !.h = EmptyText]
        ELSE IF ~ Readable(d, row.path_abs)
        THEN [NoResult EXCEPT !.status = "exception", !.file_id = row.file_id,
                              !.error = "OSError"]
        ELSE [NoResult EXCEPT !.status = "success", !.file_id = row.file_id,
                !.h = <<"xxh64">> \o SubSeq(d[row.path_abs].data, start + 1,
                          Min(start + read, Len(d[row.path_abs].data)))]

----------------------------------------------------------------------------
(* Candidate selection *)

\* the (size_bytes, ext) groups of the dup_candidates CTE: active rows of at
\* least min_file_size bytes, at least min_duplicate_count of them
InDupCandidates(rs, f) ==
    Cardinality({g \in rs : /\ Active(g)
                            /\ g.size_bytes >= min_file_size
                            /\ g.size_bytes = f.size_bytes
                            /\ g.ext = f.ext}) >= min_duplicate_count

PathFilter(flags, f) ==
    build_path_filter_sql(flags.include, flags.exclude, f.path_abs)

\* a candidate query without the test quick_hash IS NULL
QhCandidates_AnyQuickHash(rs, flags) ==
    {f \in rs : /\ InDupCandidates(rs, f)
                /\ Active(f)
                /\ f.size_bytes >= min_file_size
                /\ PathFilter(flags, f)}

\* the rows of CREATE TEMP TABLE qh_candidates
QhCandidates(rs, flags) ==
    {f \in rs : /\ InDupCandidates(rs, f)
                /\ f.quick_hash = NULL
                /\ Active(f)
                /\ f.size_bytes >= min_file_size
                /\ PathFilter(flags, f)}

\* the rows of CREATE TEMP TABLE prog_candidates
ProgCandidates(rs, flags) ==
    {f \in rs : /\ InDupCandidates(rs, f)
                /\ f.sha256 = NULL
                /\ Active(f)
                /\ PathFilter(flags, f)}

\* the duplicate_quick_hashes CTE: quick hashes carried by more than one row
InDuplicateQuickHashes(rs, f) ==
    /\ f.quick_hash # NULL
    /\ Cardinality({g \in rs : g.quick_hash = f.quick_hash}) > 1

\* the rows of CREATE TEMP TABLE sha_candidates (quick-hash centric)
ShaCandidates(rs, flags) ==
    {f \in rs : /\ InDupCandidates(rs, f)
                /\ f.sha256 = NULL
                /\ Active(f)
                /\ \/ InDuplicateQuickHashes(rs, f)
                   \/ /\ ~ flags.network_friendly
                      /\ f.size_bytes < small_file_threshold
                      /\ f.quick_hash = NULL
                      /\ f.size_bytes >= min_file_size
                /\ PathFilter(flags, f)}

\* the rows of CREATE TEMP TABLE h1_collisions
H1Collisions(table) ==
    {p \in table : /\ p.h1 # NULL
                   /\ Cardinality({q \in table : /\ q.h1 # NULL
                                                  /\ q.size_bytes = p.size_bytes
                                                  /\ q.h1 = p.h1}) > 1}

\* a derivation of the full-hash candidates from (size_bytes, h1) alone
ProgShaCandidates_HeadOnly(table) ==
    {p \in table : /\ p.h1 # NULL /\ p.h2 # NULL
                   /\ Cardinality({q \in table : /\ q.h1 # NULL /\ q.h2 # NULL
                                                  /\ q.size_bytes = p.size_bytes
                                                  /\ q.h1 = p.h1}) > 1}

\* the rows of CREATE TEMP TABLE sha_candidates (progressive)
ProgShaCandidates(table) ==
    {p \in table : /\ p.h1 # NULL /\ p.h2 # NULL
                   /\ Cardinality({q \in table : /\ q.h1 # NULL /\ q.h2 # NULL
                                                  /\ q.size_bytes = p.size_bytes
                                                  /\ q.h1 = p.h1
                                                  /\ q.h2 = p.h2}) > 1}

RECURSIVE TableOf(_)
\* a temp table filled from a set of rows: rowid = position, in file_id order
TableOf(S) ==
    IF S = {} THEN <<>>
    ELSE LET m == CHOOSE x \in S : \A y \in S : x.file_id <= y.file_id
         IN  <<m>> \o TableOf(S \ {m})

----------------------------------------------------------------------------
(* detect_duplicates: state of a call *)

DefaultFlags ==
    [enable_quick_hash |-> TRUE, enable_sha256 |-> TRUE,
     network_friendly |-> FALSE, progressive |-> FALSE, use_blake3 |-> FALSE,
     metadata_only |-> FALSE, include |-> {}, exclude |-> {},
     max_workers |-> 1]

NoStats ==
    [files_processed |-> 0, files_missing |-> 0, files_error |-> 0,
     quick_hash_count |-> 0, sha256_count |-> 0, duplicate_groups |-> 0,
     duplicate_files |-> 0, metadata_groups |-> {}]

\* what is remembered of the call before the running one
NoFirst == [flags |-> DefaultFlags, stats |-> NoStats, rows_start |-> {}]

\* the locals of a call that has not started; ok_before, flag_stage,
\* submitted, rows_start, reads (the rows whose file a worker read), run
\* (first or second call on the catalog) and first record the history
DetIdle ==
    [pc |-> "idle", flags |-> DefaultFlags, stage |-> "none",
     table |-> <<>>, prog |-> <<>>, last_rowid |-> 0, tasks |-> <<>>,
     batch |-> <<>>, stats |-> NoStats, exc |-> "",
     ok_before |-> 0, flag_stage |-> "none", submitted |-> {},
     rows_start |-> {}, reads |-> {}, run |-> 1, first |-> NoFirst]

\* the stage that follows a stage of the pipeline
StageAfter(stage, flags) ==
    CASE stage = "begin" ->
            IF flags.enable_quick_hash THEN "qh"
            ELSE IF flags.enable_sha256
                 THEN (IF flags.progressive THEN "h1" ELSE "sha")
                 ELSE "none"
      [] stage = "qh" ->
            IF flags.enable_sha256
            THEN (IF flags.progressive THEN "h1" ELSE "sha")
            ELSE "none"
      [] stage = "h1" -> "h2"
      [] stage = "h2" -> "sha"
      [] OTHER -> "none"

\* the final flush of qh and sha is inside the `with ThreadPoolExecutor`
\* block, that of h1 and h2 after it
FlushInsidePool(stage) == stage \in {"qh", "sha"}

\* the pc at which a stage leaves its `while not cancelled["flag"]` loop
LoopExit(stage) == IF FlushInsidePool(stage) THEN "flush" ELSE "shutdown"

\* len(batch) at which the loop flushes: 500 (qh, sha), 1000 (h1, h2), scaled
BatchLimit(stage) == IF FlushInsidePool(stage) THEN batch_size ELSE batch_size + 1

RECURSIVE ApplyBatch(_, _, _)
\* cur.executemany(UPDATE ... WHERE file_id=?, batch) on the files table
ApplyBatch(rs, stage, batch) ==
    IF batch = <<>> THEN rs
    ELSE LET u == batch[1]
             upd(r) ==
                IF r.file_id # u.file_id THEN r
                ELSE IF stage = "qh"
                THEN [r EXCEPT !.quick_hash = u.quick_hash,
                               !.state = "quick_hashed"]
                ELSE [r EXCEPT
                        !.sha256 = IF u.sha256 # NULL THEN u.sha256 ELSE @,
                        !.state = "sha_verified",
                        !.quick_hash = IF @ # NULL THEN @ ELSE u.quick_hash,
                        !.blake3 = IF u.blake3 # NULL THEN u.blake3 ELSE @]
         IN  ApplyBatch({upd(r) : r \in rs}, stage, Tail(batch))

RECURSIVE ApplySamples(_, _, _)
\* cur.executemany(UPDATE prog_candidates SET h1|h2=? WHERE file_id=?, batch)
ApplySamples(table, stage, batch) ==
    IF batch = <<>> THEN table
    ELSE LET u == batch[1]
         IN  ApplySamples(
                [i \in DOMAIN table |->
                    IF table[i].file_id # u.file_id THEN table[i]
                    ELSE IF stage = "h1" THEN [table[i] EXCEPT !.h1 = u.h]
                    ELSE [table[i] EXCEPT !.h2 = u.h]],
                stage, Tail(batch))

\* a statement that drops the row of a missing or unreadable file
MarkRow_Deletes(rs, res) == {r \in rs : r.file_id # res.file_id}

\* UPDATE files SET state=..., error_code=..., error_msg=? WHERE file_id=?
MarkRow(rs, res) ==
    {IF r.file_id # res.file_id THEN r
     ELSE [r EXCEPT !.state = IF res.status = "missing" THEN "missing" ELSE "error",
                    !.error_code = IF res.status = "missing" THEN "not_found"
                                   ELSE "hash_failed",
                    !.error_msg = res.error] : r \in rs}

\* UPDATE files SET h1=(SELECT h1 FROM prog_candidates ...) WHERE file_id IN
\* (... h1 IS NOT NULL), and the same for h2
PersistSampleColumns(rs, table) ==
    LET P == {table[i] : i \in DOMAIN table}
        upd(r) ==
            IF \E p \in P : p.file_id = r.file_id
            THEN LET p == CHOOSE q \in P : q.file_id = r.file_id
                 IN  [r EXCEPT !.h1 = IF p.h1 # NULL THEN p.h1 ELSE @,
                               !.h2 = IF p.h2 # NULL THEN p.h2 ELSE @]
            ELSE r
    IN  {upd(r) : r \in rs}

\* a page query that compares with rowid >= last_rowid: the last row of the
\* page before is selected again
PageRowids_Repeats(table, stage, last_rowid) ==
    LET ok == {i \in DOMAIN table :
                  i >= last_rowid /\ (stage = "h1" => table[i].h1 = NULL)}
    IN  {i \in ok : Cardinality({j \in ok : j < i}) < PAGE}

\* the rows of a page: rowid > last_rowid (AND h1 IS NULL in stage h1)
\* ORDER BY rowid LIMIT PAGE, as the set of their rowids
PageRowids(table, stage, last_rowid) ==
    LET ok == {i \in DOMAIN table :
                  i > last_rowid /\ (stage = "h1" => table[i].h1 = NULL)}
    IN  {i \in ok : Cardinality({j \in ok : j < i}) < PAGE}

\* the per-file function of a stage applied to one candidate
ComputeTask(stage, row, d, flags) ==
    CASE stage = "qh" -> compute_quick_hash(row, d, QuickHashBytes(flags))
      [] stage = "h1" -> compute_h1(row, d, SampleBytes(flags))
      [] stage = "h2" -> compute_h2(row, d, SampleBytes(flags))
      [] OTHER -> compute_sha256(row, d, flags)

\* the per-file function of a stage reads bytes of the row's file: the file
\* can be opened, and the tail sample asks for at least one byte
ReadsFile(stage, row, d, flags) ==
    /\ Readable(d, row.path_abs)
    /\ (stage = "h2" => Min(SampleBytes(flags), Max(0, row.size_bytes)) > 0)

TasksIn(st) == {i \in DOMAIN det.tasks : det.tasks[i].st = st}

----------------------------------------------------------------------------
(* detect_duplicates: the steps of a call *)

\* a row of a candidate temp table
CandRow(f, qh) ==
    [file_id |-> f.file_id, path_abs |-> f.path_abs,
     size_bytes |-> f.size_bytes, quick_hash |-> qh, h1 |-> f.h1, h2 |-> f.h2]

SeqToSet(t) == {t[i] : i \in DOMAIN t}

\* the table the page query of a stage reads
PagedTable == IF det.stage = "h1" THEN det.prog ELSE det.table

\* detect_duplicates(cfg, ...) up to the first stage: connect, install the
\* SIGINT handler and the progress handler, migrate, scope counts
DetectBegin(flags) ==
    /\ det.pc = "idle"
    /\ cancelled' = FALSE
    /\ det' = [DetIdle EXCEPT
            !.pc = IF flags.metadata_only THEN "metadata"
                   ELSE IF StageAfter("begin", flags) = "none" THEN "analyze"
                   ELSE "select",
            !.flags = flags,
            !.stage = IF flags.metadata_only THEN "none"
                      ELSE StageAfter("begin", flags),
            !.rows_start = rows]
    /\ UNCHANGED <<rows, disk, durable, pruneVars, limiter>>

\* the key of a metadata group in the Python grouping
MetadataKey(r) == <<r.size_bytes, Lower(r.name), Lower(r.ext)>>

\* the rows the metadata-only query returns: the dup_meta CTE groups the
\* active, filtered rows of at least min_file_size bytes by (size_bytes,
\* LOWER(name), ext); the outer SELECT joins every active row of files on it
MetadataRows(rs, flags) ==
    LET scoped == {f \in rs : /\ Active(f)
                              /\ f.size_bytes >= min_file_size
                              /\ PathFilter(flags, f)}
        same(a, b) == /\ a.size_bytes = b.size_bytes
                      /\ Lower(a.name) = Lower(b.name)
                      /\ a.ext = b.ext
        inDupMeta(f) == Cardinality({g \in scoped : same(g, f)})
                            >= min_duplicate_count
    IN  {f \in rs : Active(f) /\ \E g \in scoped : same(g, f) /\ inDupMeta(g)}

\* stats["metadata_groups"]: the groups of more than one member
MetadataGroups(rs, flags) ==
    LET found == MetadataRows(rs, flags)
        keys  == {MetadataKey(r) : r \in found}
        members(k) == {[file_id |-> r.file_id, path |-> r.path_abs,
                        mtime |-> r.mtime_utc] :
                            r \in {x \in found : MetadataKey(x) = k}}
    IN  {[key |-> k, members |-> members(k)] :
            k \in {x \in keys : Cardinality(members(x)) > 1}}

RECURSIVE SumCard(_)
SumCard(groups) ==
    IF groups = {} THEN 0
    ELSE LET g == CHOOSE x \in groups : TRUE
         IN  Cardinality(g.members) + SumCard(groups \ {g})

\* the metadata-only branch: query, grouping, `return stats`
MetadataScan ==
    /\ det.pc = "metadata"
    /\ LET groups == MetadataGroups(rows, det.flags)
       IN  det' = [det EXCEPT
                !.pc = "returned",
                !.stats.duplicate_groups = Cardinality(groups),
                !.stats.duplicate_files = SumCard(groups),
                !.stats.metadata_groups = groups,
                !.stats.files_processed =
                    Cardinality(MetadataRows(rows, det.flags))]
    /\ UNCHANGED <<rows, disk, durable, cancelled, pruneVars, cli, limiter>>

\* CREATE TEMP TABLE qh_candidates / prog_candidates / h1_collisions /
\* sha_candidates of the stage that starts
CreateCandidates ==
    /\ det.pc = "select"
    /\ LET st == det.stage
           f  == det.flags
           qh   == TableOf({CandRow(r, NULL) : r \in QhCandidates(rows, f)})
           prog == TableOf({CandRow(r, NULL) : r \in ProgCandidates(rows, f)})
           h1c  == TableOf(H1Collisions(SeqToSet(det.prog)))
           shaP == TableOf({[p EXCEPT !.quick_hash = NULL] :
                              p \in ProgShaCandidates(SeqToSet(det.prog))})
           shaQ == TableOf({CandRow(r, r.quick_hash) : r \in ShaCandidates(rows, f)})
       IN  det' = [det EXCEPT
                !.pc = "page",
                !.table = CASE st = "qh" -> qh
                            [] st = "h1" -> <<>>
                            [] st = "h2" -> h1c
                            [] OTHER -> IF f.progressive THEN shaP ELSE shaQ,
                !.prog = IF st = "h1" THEN prog ELSE @,
                !.last_rowid = 0,
                !.batch = <<>>,
                !.tasks = <<>>,
                !.ok_before = 0]
    /\ UNCHANGED <<rows, disk, durable, cancelled, pruneVars, cli, limiter>>

\* one turn of `while not cancelled["flag"]`: fetch the next page and submit
\* one task per row, or leave the loop (flag set, or no row left)
FetchPage ==
    /\ det.pc = "page"
    /\ LET ids == PageRowids(PagedTable, det.stage, det.last_rowid)
       IN  IF cancelled \/ ids = {}
           THEN det' = [det EXCEPT !.pc = LoopExit(det.stage)]
           ELSE det' = [det EXCEPT
                    !.pc = "consume",
                    !.tasks = [i \in ids |-> [st |-> "queued",
                                              row |-> PagedTable[i],
                                              res |-> NoResult]],
                    !.last_rowid = CHOOSE i \in ids : \A j \in ids : j <= i,
                    !.submitted = @ \cup {PagedTable[i].file_id : i \in ids}]
    /\ UNCHANGED <<rows, disk, durable, cancelled, pruneVars, cli, limiter>>

\* a pool thread takes the oldest queued task
TaskStart ==
    /\ TasksIn("queued") # {}
    /\ Cardinality(TasksIn("running")) < Workers(det.flags)
    /\ LET i == CHOOSE q \in TasksIn("queued") : \A o \in TasksIn("queued") : q <= o
       IN  det' = [det EXCEPT !.tasks[i].st = "running"]
    /\ UNCHANGED <<rows, disk, durable, cancelled, pruneVars, cli, limiter>>

\* a pool thread finishes its task: the per-file function has run
TaskFinish ==
    /\ \E i \in TasksIn("running") :
          LET res == ComputeTask(det.stage, det.tasks[i].row, disk, det.flags)
          IN  det' = [det EXCEPT
                    !.tasks[i].st = "done",
                    !.tasks[i].res = res,
                    !.reads = IF ReadsFile(det.stage, det.tasks[i].row, disk,
                                           det.flags)
                              THEN @ \cup {det.tasks[i].row.file_id} ELSE @,
                    !.ok_before = IF res.status = "success" /\ ~ cancelled
                                  THEN @ + 1 ELSE @]
    /\ UNCHANGED <<rows, disk, durable, cancelled, pruneVars, cli, limiter>>

\* a dispatcher that goes back to the page query after the first result
PageLeft_FirstResultOnly(tasks) == FALSE

\* `for fut in as_completed(list(futures.keys()))` has a future left to
\* yield: a task of the page whose result was not consumed
PageLeft(tasks) == \E j \in DOMAIN tasks : tasks[j].st # "consumed"

\* one iteration of `for fut in as_completed(...)`: route the result, flush
\* the batch when it is full, and break when the flag is set
Consume ==
    /\ det.pc = "consume"
    /\ \E i \in TasksIn("done") :
          LET res    == det.tasks[i].res
              st     == det.stage
              tasks1 == [det.tasks EXCEPT ![i].st = "consumed"]
              batch1 == IF res.status = "success" THEN Append(det.batch, res)
                        ELSE det.batch
              rows1  == IF res.status \in {"missing", "error"}
                        THEN MarkRow(rows, res) ELSE rows
              full   == Len(batch1) >= BatchLimit(st)
              rows2  == IF full /\ FlushInsidePool(st)
                        THEN ApplyBatch(rows1, st, batch1) ELSE rows1
              prog2  == IF full /\ ~ FlushInsidePool(st)
                        THEN ApplySamples(det.prog, st, batch1) ELSE det.prog
              left   == PageLeft(tasks1)
          IN  IF res.status = "exception"
              THEN /\ det' = [det EXCEPT !.pc = "raising", !.tasks = tasks1,
                                       !.exc = res.error]
                   /\ UNCHANGED <<rows, durable>>
              ELSE /\ rows' = rows2
                   /\ durable' = IF full THEN rows2 ELSE durable
                   /\ det' = [det EXCEPT
                        !.pc = IF cancelled THEN LoopExit(st)
                               ELSE IF left THEN "consume" ELSE "page",
                        !.tasks = tasks1,
                        !.batch = IF full THEN <<>> ELSE batch1,
                        !.prog = prog2,
                        !.stats.quick_hash_count =
                            IF st = "qh" /\ res.status = "success" THEN @ + 1 ELSE @,
                        !.stats.sha256_count =
                            IF st = "sha" /\ res.status = "success" THEN @ + 1 ELSE @,
                        !.stats.files_missing =
                            IF res.status = "missing" THEN @ + 1 ELSE @,
                        !.stats.files_error =
                            IF res.status = "error" THEN @ + 1 ELSE @]
    /\ UNCHANGED <<disk, cancelled, pruneVars, cli, limiter>>

\* `if batch_updates: cur.executemany(...); con.commit()` after the loop
FinalFlush ==
    /\ det.pc = "flush"
    /\ LET st == det.stage
           some == det.batch # <<>>
       IN  /\ rows' = IF some /\ FlushInsidePool(st)
                      THEN ApplyBatch(rows, st, det.batch) ELSE rows
           /\ durable' = IF some THEN rows' ELSE durable
           /\ det' = [det EXCEPT
                !.pc = IF FlushInsidePool(st) THEN "shutdown" ELSE "stage_done",
                !.batch = <<>>,
                !.prog = IF some /\ ~ FlushInsidePool(st)
                         THEN ApplySamples(@, st, det.batch) ELSE @]
    /\ UNCHANGED <<disk, cancelled, pruneVars, cli, limiter>>

\* the end of the `with ThreadPoolExecutor` block: shutdown(wait=True)
\* returns when every submitted task has run
Shutdown ==
    /\ det.pc = "shutdown"
    /\ TasksIn("queued") = {} /\ TasksIn("running") = {}
    /\ det' = [det EXCEPT
            !.pc = IF FlushInsidePool(det.stage) THEN "stage_done" ELSE "flush",
            !.tasks = <<>>]
    /\ UNCHANGED <<rows, disk, durable, cancelled, pruneVars, cli, limiter>>

\* the stage has returned: go on to the next one
StageDone ==
    /\ det.pc = "stage_done"
    /\ LET next == StageAfter(det.stage, det.flags)
       IN  det' = [det EXCEPT
                !.pc = IF det.stage = "h2" THEN "persist"
                       ELSE IF next = "none" THEN "analyze" ELSE "select",
                !.stage = IF det.stage = "h2" THEN "h2" ELSE next]
    /\ UNCHANGED <<rows, disk, durable, cancelled, pruneVars, cli, limiter>>

\* persist h1/h2 to files for reuse in future runs, and commit
PersistSamples ==
    /\ det.pc = "persist"
    /\ rows' = PersistSampleColumns(rows, det.prog)
    /\ durable' = rows'
    /\ det' = [det EXCEPT !.pc = "select", !.stage = "sha"]
    /\ UNCHANGED <<disk, cancelled, pruneVars, cli, limiter>>

\* the rows of the stage 3 query: sha256 IS NOT NULL, active, inside filters
ReportScope(rs, flags) ==
    {f \in rs : f.sha256 # NULL /\ Active(f) /\ PathFilter(flags, f)}

\* the groups of GROUP BY sha256 HAVING COUNT(*) > 1, as sets of rows
ReportedGroups(rs, flags) ==
    LET scope == ReportScope(rs, flags)
        grp(d) == {f \in scope : f.sha256 = d}
    IN  {grp(d) : d \in {f.sha256 : f \in {x \in scope :
                                  Cardinality(grp(x.sha256)) > 1}}}

RECURSIVE SumSizes(_)
SumSizes(groups) ==
    IF groups = {} THEN 0
    ELSE LET g == CHOOSE x \in groups : TRUE
         IN  Cardinality(g) + SumSizes(groups \ {g})

\* stage 3: the duplicate analysis query and its statistics
Analyze ==
    /\ det.pc = "analyze"
    /\ LET groups == ReportedGroups(rows, det.flags)
       IN  det' = [det EXCEPT
                !.pc = "finalize",
                !.stats.duplicate_groups = Cardinality(groups),
                !.stats.duplicate_files = SumSizes(groups)]
    /\ UNCHANGED <<rows, disk, durable, cancelled, pruneVars, cli, limiter>>

\* an update to done that skips the rows in state sha_verified
MarkDone_QuickHashedOnly(rs) ==
    {IF r.state = "quick_hashed" /\ r.sha256 # NULL
     THEN [r EXCEPT !.state = "done"] ELSE r : r \in rs}

\* UPDATE files SET state='done' WHERE state IN ('quick_hashed',
\* 'sha_verified') AND sha256 IS NOT NULL
MarkDone(rs) ==
    {IF r.state \in {"quick_hashed", "sha_verified"} /\ r.sha256 # NULL
     THEN [r EXCEPT !.state = "done"] ELSE r : r \in rs}

\* finalize: mark done, commit, files_processed, `return stats`
Finalize ==
    /\ det.pc = "finalize"
    /\ rows' = MarkDone(rows)
    /\ durable' = rows'
    /\ det' = [det EXCEPT
            !.pc = "returned",
            !.stats.files_processed =
                det.stats.quick_hash_count + det.stats.sha256_count]
    /\ UNCHANGED <<disk, cancelled, pruneVars, cli, limiter>>

\* an exception leaves detect_duplicates: the pool block waits for its
\* tasks, `finally: con.close()` drops what was not committed
RaiseOut ==
    /\ det.pc = "raising"
    /\ TasksIn("queued") = {} /\ TasksIn("running") = {}
    /\ rows' = durable
    /\ det' = [det EXCEPT !.pc = "raised", !.tasks = <<>>]
    /\ UNCHANGED <<disk, durable, cancelled, pruneVars, cli, limiter>>

\* _handle_sigint: the user's interrupt sets the flag
SigInt ==
    /\ det.pc \notin {"idle", "returned", "raised"}
    /\ ~ cancelled
    /\ cancelled' = TRUE
    /\ det' = [det EXCEPT
            !.flag_stage = IF det.pc \in {"page", "consume"}
                           THEN det.stage ELSE "outside"]
    /\ UNCHANGED <<rows, disk, durable, pruneVars, cli, limiter>>

\* the progress handler returns 1 once the flag is set: an SQL statement
\* that runs then (table creation, batch flush, persist, analysis,
\* finalization) fails with sqlite3.OperationalError: interrupted
ProgressInterrupt ==
    /\ cancelled
    /\ \/ /\ \/ det.pc \in {"select", "persist", "analyze", "finalize"}
             \/ det.pc = "flush" /\ det.batch # <<>>
          /\ det' = [det EXCEPT !.pc = "raising", !.exc = "OperationalError"]
       \/ /\ det.pc = "consume"
          /\ \E i \in TasksIn("done") :
                /\ \/ det.tasks[i].res.status \in {"missing", "error"}
                   \/ /\ det.tasks[i].res.status = "success"
                      /\ Len(det.batch) + 1 >= BatchLimit(det.stage)
                /\ det' = [det EXCEPT !.pc = "raising",
                                      !.exc = "OperationalError",
                                      !.tasks[i].st = "consumed"]
    /\ UNCHANGED <<rows, disk, durable, cancelled, pruneVars, cli, limiter>>

----------------------------------------------------------------------------
(* prune_hash_duplicates *)

\* the locals of a command-line run that has not started; events,
\* rows_init and disk_init record the history of the run
CliIdle ==
    [pc |-> "idle", entry |-> "dedupe",
     args |-> [metadata_only |-> FALSE, metadata_prune |-> FALSE,
               delete_duplicates |-> FALSE, dry_run |-> FALSE,
               no_confirm |-> FALSE, keep_newest |-> FALSE,
               report_only |-> FALSE, progressive |-> FALSE],
     stats_none |-> TRUE, events |-> <<>>, rows_init |-> {},
     disk_init |-> <<>>]

\* what is remembered of the prune call before the running one: the group
\* plans and the errors it returned
NoPrevPrune == [groups |-> <<>>, errors |-> <<>>]

\* the locals of a prune call that has not started
PruneIdle ==
    [pc |-> "idle", dry_run |-> TRUE, keep_strategy |-> "oldest",
     include |-> {}, exclude |-> {},
     duplicate_hashes |-> <<>>, keeper |-> <<>>, count |-> 0,
     sha256 |-> NULL, candidates |-> {},
     duplicates |-> <<>>, entries |-> <<>>, calls |-> 0,
     prev |-> NoPrevPrune,
     stats |-> [hash_groups |-> 0, groups_modified |-> 0,
                files_considered |-> 0, files_removed |-> 0,
                db_rows_removed |-> 0, bytes_reclaimed |-> 0,
                potential_bytes_reclaimed |-> 0, errors |-> <<>>,
                groups |-> <<>>]]

\* WHERE sha256 IS NOT NULL AND state NOT IN ('error','missing') + filters
PruneScope(rs, inc, exc) ==
    {r \in rs : /\ r.sha256 # NULL
                /\ Active(r)
                /\ build_path_filter_sql(inc, exc, r.path_abs)}

\* the digests of GROUP BY sha256 HAVING COUNT(*) > 1
DuplicateDigests(rs, inc, exc) ==
    {r.sha256 : r \in {x \in PruneScope(rs, inc, exc) :
        Cardinality({y \in PruneScope(rs, inc, exc) : y.sha256 = x.sha256}) > 1}}

GroupCount(rs, inc, exc, digest) ==
    Cardinality({y \in PruneScope(rs, inc, exc) : y.sha256 = digest})

\* the lists ORDER BY cnt DESC can return (ties in any order)
DuplicateHashLists(rs, inc, exc) ==
    LET D == DuplicateDigests(rs, inc, exc)
    IN  {s \in [1..Cardinality(D) -> D] :
            /\ \A i, j \in DOMAIN s : i # j => s[i] # s[j]
            /\ \A i, j \in DOMAIN s :
                 i < j => GroupCount(rs, inc, exc, s[i]) >= GroupCount(rs, inc, exc, s[j])}

\* ORDER BY mtime_utc ASC, file_id ASC
SqlOrderBefore(a, b) ==
    \/ MtimeTextRank(a.mtime_utc) < MtimeTextRank(b.mtime_utc)
    \/ /\ MtimeTextRank(a.mtime_utc) = MtimeTextRank(b.mtime_utc)
       /\ a.file_id < b.file_id

RECURSIVE MembersInSqlOrder(_)
\* the members list built from the detail query's rows
MembersInSqlOrder(S) ==
    IF S = {} THEN <<>>
    ELSE LET m == CHOOSE x \in S : \A y \in S \ {x} : SqlOrderBefore(x, y)
         IN  <<m>> \o MembersInSqlOrder(S \ {m})

\* KeeperKeyLess with the sign of the timestamp dropped from the 'oldest' key
KeeperKeyLess_NoMtime(a, b, keep_strategy) ==
    \/ StrLess(Lower(a.path_abs), Lower(b.path_abs))
    \/ /\ Lower(a.path_abs) = Lower(b.path_abs)
       /\ a.file_id < b.file_id

\* a < b under sorted()'s key (+-parse_ts(mtime), path.lower(), file_id)
KeeperKeyLess(a, b, keep_strategy) ==
    LET ta == IF keep_strategy = "newest" THEN 0 - parse_ts(a.mtime_utc)
              ELSE parse_ts(a.mtime_utc)
        tb == IF keep_strategy = "newest" THEN 0 - parse_ts(b.mtime_utc)
              ELSE parse_ts(b.mtime_utc)
    IN  \/ ta < tb
        \/ /\ ta = tb
           /\ StrLess(Lower(a.path_abs), Lower(b.path_abs))
        \/ /\ ta = tb
           /\ Lower(a.path_abs) = Lower(b.path_abs)
           /\ a.file_id < b.file_id

\* existing = [m for m in members if Path(m["path"]).exists()];
\* candidates = existing or members
KeeperCandidates(members, d) ==
    LET existing == {m \in members : Exists(d, m.path_abs)}
    IN  IF existing # {} THEN existing ELSE members

\* keeper = sorted(candidates, key=...)[0]
SelectKeeper(members, d, keep_strategy) ==
    LET candidates == KeeperCandidates(members, d)
    IN  CHOOSE c \in candidates :
            \A o \in candidates \ {c} : KeeperKeyLess(c, o, keep_strategy)

RECURSIVE SeqFilterNot(_, _)
\* the list s without the records whose file_id is fid
SeqFilterNot(s, fid) ==
    IF s = <<>> THEN <<>>
    ELSE IF s[1].file_id = fid THEN SeqFilterNot(Tail(s), fid)
    ELSE <<s[1]>> \o SeqFilterNot(Tail(s), fid)

\* prune_hash_duplicates(cfg, include, exclude, dry_run, keep_strategy) up to
\* the first query: the duplicate digests, or the early return when none
PruneBegin(dry, strategy, inc, exc) ==
    /\ prune.pc \in {"idle", "returned"}
    /\ \E lst \in DuplicateHashLists(rows, inc, exc) :
          prune' = [PruneIdle EXCEPT
                      !.pc = IF lst = <<>> THEN "returned" ELSE "groups",
                      !.dry_run = dry, !.keep_strategy = strategy,
                      !.include = inc, !.exclude = exc,
                      !.calls = prune.calls + 1,
                      !.duplicate_hashes = lst,
                      !.stats.hash_groups = Len(lst)]
    /\ disk0' = disk
    /\ rows0' = rows
    /\ UNCHANGED <<detVars, limiter>>

\* prune_hash_duplicates called again in execute mode with the policy and
\* the filters of the execute-mode call that has just returned
PruneAgain ==
    /\ prune.pc = "returned"
    /\ prune.calls = 1
    /\ ~ prune.dry_run
    /\ \E lst \in DuplicateHashLists(rows, prune.include, prune.exclude) :
          prune' = [PruneIdle EXCEPT
                      !.pc = IF lst = <<>> THEN "returned" ELSE "groups",
                      !.dry_run = FALSE,
                      !.keep_strategy = prune.keep_strategy,
                      !.include = prune.include, !.exclude = prune.exclude,
                      !.calls = 2,
                      !.duplicate_hashes = lst,
                      !.stats.hash_groups = Len(lst),
                      !.prev = [groups |-> prune.stats.groups,
                                errors |-> prune.stats.errors]]
    /\ disk0' = disk
    /\ rows0' = rows
    /\ UNCHANGED <<rows, disk, detVars, cli, limiter>>

\* one iteration of `for sha256, count, size_bytes in duplicate_hashes` up to
\* the loop over the losers: detail query, members, keeper, duplicates
PruneGroup ==
    /\ prune.pc = "groups"
    /\ prune.duplicate_hashes # <<>>
    /\ LET sha      == Head(prune.duplicate_hashes)
           found    == {r \in PruneScope(rows, prune.include, prune.exclude) :
                          r.sha256 = sha}
           members  == MembersInSqlOrder(found)
           keeper   == SelectKeeper(found, disk, prune.keep_strategy)
           losers   == SeqFilterNot(members, keeper.file_id)
       IN  IF Cardinality(found) <= 1 \/ losers = <<>>
           THEN prune' = [prune EXCEPT !.duplicate_hashes = Tail(@)]
           ELSE prune' = [prune EXCEPT
                    !.pc = "losers",
                    !.duplicate_hashes = Tail(@),
                    !.keeper = <<keeper>>,
                    !.sha256 = sha,
                    !.candidates = {m.file_id : m \in KeeperCandidates(found, disk)},
                    !.count = Len(members),
                    !.duplicates = losers,
                    !.entries = <<>>,
                    !.stats.groups_modified = @ + 1,
                    !.stats.files_considered = @ + Len(losers)]
    /\ UNCHANGED <<rows, disk, disk0, rows0, detVars, cli, limiter>>

\* the plan entry of a loser
PruneEntry(rec, status) ==
    [file_id |-> rec.file_id, path |-> rec.path_abs,
     size_bytes |-> rec.size_bytes, status |-> status]

\* a prune that touches the disk and the catalog in every mode
ExecuteMode_Always(dry_run) == TRUE

\* `if not dry_run:` the loser's file and row are acted upon
ExecuteMode(dry_run) == ~ dry_run

\* a loser whose file is taken to be unlinked without looking for it
UnlinkStatus_NoExistsCheck(there, unlink_ok) ==
    IF unlink_ok THEN "deleted" ELSE "error"

\* entry["status"] after the unlink step: deleted, error (unlink raised) or
\* missing (path_obj.exists() is false)
UnlinkStatus(there, unlink_ok) ==
    IF there THEN (IF unlink_ok THEN "deleted" ELSE "error") ELSE "missing"

\* a prune that deletes the row of every loser
RowDeleteDue_Always(status) == TRUE

\* `if entry["status"] in {"deleted", "missing"}:` the row is deleted
RowDeleteDue(status) == status \in {"deleted", "missing"}

\* one iteration of `for duplicate_rec in duplicates` in dry-run mode
PruneLoserDryRun ==
    /\ prune.pc = "losers"
    /\ prune.duplicates # <<>>
    /\ ~ ExecuteMode(prune.dry_run)
    /\ LET rec == Head(prune.duplicates)
       IN  prune' = [prune EXCEPT
                !.duplicates = Tail(@),
                !.entries = Append(@, PruneEntry(rec, "would-delete")),
                !.stats.potential_bytes_reclaimed = @ + rec.size_bytes]
    /\ UNCHANGED <<rows, disk, disk0, rows0, detVars, cli, limiter>>

\* one iteration of `for duplicate_rec in duplicates` in execute mode:
\* unlink the file if it exists (the unlink may fail), and delete the row
\* when the file is gone (the DELETE may fail)
PruneLoserExecute ==
    /\ prune.pc = "losers"
    /\ prune.duplicates # <<>>
    /\ ExecuteMode(prune.dry_run)
    /\ LET rec == Head(prune.duplicates)
           there == Exists(disk, rec.path_abs)
       IN  \E unlink_ok \in BOOLEAN, delete_ok \in BOOLEAN :
             LET status == UnlinkStatus(there, unlink_ok)
                 gone   == RowDeleteDue(status)
                 rowcount == Cardinality({r \in rows : r.file_id = rec.file_id})
                 errs1  == IF status = "error"
                           THEN <<[kind |-> "unlink", file_id |-> rec.file_id]>>
                           ELSE <<>>
                 errs2  == IF gone /\ ~ delete_ok
                           THEN <<[kind |-> "db", file_id |-> rec.file_id]>>
                           ELSE <<>>
                 final  == IF gone /\ delete_ok
                           THEN (CASE status = "deleted" -> "deleted +db-pruned"
                                   [] status = "missing" -> "missing +db-pruned"
                                   [] OTHER -> status)
                           ELSE status
             IN  /\ (~ there => unlink_ok)
                 /\ (~ gone => delete_ok)
                 /\ disk' = IF status = "deleted"
                            THEN [disk EXCEPT ![rec.path_abs].exists = FALSE]
                            ELSE disk
                 /\ rows' = IF gone /\ delete_ok
                            THEN {r \in rows : r.file_id # rec.file_id}
                            ELSE rows
                 /\ prune' = [prune EXCEPT
                        !.duplicates = Tail(@),
                        !.entries = Append(@, PruneEntry(rec, final)),
                        !.stats.potential_bytes_reclaimed = @ + rec.size_bytes,
                        !.stats.files_removed =
                            IF status = "deleted" THEN @ + 1 ELSE @,
                        !.stats.bytes_reclaimed =
                            IF status = "deleted" THEN @ + rec.size_bytes ELSE @,
                        !.stats.db_rows_removed =
                            IF gone /\ delete_ok THEN @ + rowcount ELSE @,
                        !.stats.errors = @ \o errs1 \o errs2]
    /\ durable' = rows'
    /\ UNCHANGED <<disk0, rows0, cancelled, det, cli, limiter>>

\* stats["groups"].append(group_plan) at the end of a group's iteration
PruneGroupEnd ==
    /\ prune.pc = "losers"
    /\ prune.duplicates = <<>>
    /\ prune' = [prune EXCEPT
            !.pc = "groups",
            !.stats.groups = Append(@, [sha256 |-> prune.sha256,
                                        keeper |-> prune.keeper[1],
                                        candidates |-> prune.candidates,
                                        count |-> prune.count,
                                        duplicates |-> prune.entries])]
    /\ UNCHANGED <<rows, disk, disk0, rows0, detVars, cli, limiter>>

\* con.commit() (execute mode) and `return stats`
PruneReturn ==
    /\ prune.pc = "groups"
    /\ prune.duplicate_hashes = <<>>
    /\ prune' = [prune EXCEPT !.pc = "returned"]
    /\ UNCHANGED <<rows, disk, disk0, rows0, detVars, cli, limiter>>

----------------------------------------------------------------------------
(* The pruner called directly, twice at most, on a hashed catalog *)

\* the contents behind the digests of the pruner's catalog
PruneContents == {<<0, 0>>, <<1>>}

\* the number of prune calls of one behaviour
MaxPruneCalls == 2

\* a row that an earlier detection run left in state done
HashedRow(fid, path, data, mtime) ==
    [NewRow(fid, path, Len(data), mtime) EXCEPT
        !.quick_hash = quick_hash(data, 1),
        !.sha256 = Sha256Of(data),
        !.state = "done"]

----------------------------------------------------------------------------
(* ByteRateLimiter: the token bucket shared by the hashing threads          *)
(* (catalog/dedupe.py and catalog/hash_all.py carry the same class).  Time  *)
(* is the reading of time.monotonic() in whole ticks since construction,    *)
(* tokens are whole bytes.                                                  *)

\* number of threads calling acquire()
LimiterThreads == 2

\* last reading of the monotonic clock
MaxClock == 3

\* number of acquire() calls
MaxAcquires == 3

Threads == 1..LimiterThreads

\* values of rate_bps, of burst (0 is None) and of n handed to the class
RateArgs == {0, 1, 2}
BurstArgs == {0, 1, 3}
ChunkSizes == {0, 1, 2}

\* a thread outside acquire()
ThreadIdle == [pc |-> "idle", n |-> 0, now |-> 0, wake |-> 0]

\* no limiter constructed (io_bytes_per_sec not given)
NoLimiter ==
    [rate |-> 0, capacity |-> 0, tokens |-> 0, last |-> 0, lock |-> 0,
     clock |-> 0, granted |-> 0, ticks |-> {}, twice |-> FALSE, calls |-> 0,
     th |-> [t \in Threads |-> ThreadIdle]]

\* ByteRateLimiter.__init__, at clock reading 0
NewLimiter(rate_bps, burst) ==
    LET rate == Max(1, rate_bps)
        capacity == IF burst # 0 THEN burst ELSE rate
    IN  [NoLimiter EXCEPT !.rate = rate, !.capacity = capacity,
                          !.tokens = capacity, !.last = 0]

\* time.monotonic() moves on
ClockTick ==
    /\ limiter.clock < MaxClock
    /\ limiter' = [limiter EXCEPT !.clock = @ + 1]
    /\ UNCHANGED <<rows, disk, detVars, pruneVars, cli>>

\* a thread calls acquire(n): n <= 0 returns at once
AcquireCall(t, n) ==
    /\ limiter.th[t].pc = "idle"
    /\ limiter.calls < MaxAcquires
    /\ limiter' = [limiter EXCEPT
            !.calls = @ + 1,
            !.th[t] = IF n <= 0 THEN ThreadIdle
                      ELSE [ThreadIdle EXCEPT !.pc = "loop", !.n = n]]
    /\ UNCHANGED <<rows, disk, detVars, pruneVars, cli>>

\* now = time.monotonic(), outside the lock
SampleClock(t) ==
    /\ limiter.th[t].pc = "loop"
    /\ limiter' = [limiter EXCEPT !.th[t].now = limiter.clock,
                                  !.th[t].pc = "lock"]
    /\ UNCHANGED <<rows, disk, detVars, pruneVars, cli>>

\* with self._lock: the thread waits until no thread holds the lock
LockEnter(t) ==
    /\ limiter.th[t].pc = "lock"
    /\ limiter.lock = 0
    /\ limiter' = [limiter EXCEPT !.lock = t, !.th[t].pc = "refill"]
    /\ UNCHANGED <<rows, disk, detVars, pruneVars, cli>>

\* a refill that credits the time since self.last whatever its sign
RefillDue_Always(elapsed) == TRUE

\* if elapsed > 0
RefillDue(elapsed) == elapsed > 0

\* elapsed = now - self.last, and the refill of the bucket; ticks are the
\* clock ticks credited so far, twice tells that one was credited again
Refill(t) ==
    /\ limiter.th[t].pc = "refill"
    /\ limiter.lock = t
    /\ LET now == limiter.th[t].now
           elapsed == now - limiter.last
           credit == {k \in 1..MaxClock : limiter.last < k /\ k <= now}
       IN  IF RefillDue(elapsed)
           THEN limiter' = [limiter EXCEPT
                    !.tokens = Min(limiter.capacity, @ + elapsed * limiter.rate),
                    !.last = now,
                    !.twice = @ \/ (credit \cap limiter.ticks # {}),
                    !.ticks = @ \cup credit,
                    !.th[t].pc = "take"]
           ELSE limiter' = [limiter EXCEPT !.th[t].pc = "take"]
    /\ UNCHANGED <<rows, disk, detVars, pruneVars, cli>>

\* time.sleep(max(0.001, needed / rate)) in whole ticks: needed >= 1 here
ToSleep(needed, rate) == (needed + rate - 1) \div rate

\* an acquire() whose sleep is inside `with self._lock`
Take_SleepsInLock(t) ==
    /\ limiter.th[t].pc = "take"
    /\ limiter.lock = t
    /\ LET n == limiter.th[t].n
           needed == n - limiter.tokens
       IN  IF limiter.tokens >= n
           THEN limiter' = [limiter EXCEPT
                    !.tokens = @ - n,
                    !.granted = @ + n,
                    !.lock = 0,
                    !.th[t] = ThreadIdle]
           ELSE limiter' = [limiter EXCEPT
                    !.th[t].pc = "sleep",
                    !.th[t].now = 0,
                    !.th[t].wake = limiter.clock + ToSleep(needed, limiter.rate)]
    /\ UNCHANGED <<rows, disk, detVars, pruneVars, cli>>

\* if self.tokens >= n: take them and return; otherwise leave the lock and
\* sleep
Take(t) ==
    /\ limiter.th[t].pc = "take"
    /\ limiter.lock = t
    /\ LET n == limiter.th[t].n
           needed == n - limiter.tokens
       IN  IF limiter.tokens >= n
           THEN limiter' = [limiter EXCEPT
                    !.tokens = @ - n,
                    !.granted = @ + n,
                    !.lock = 0,
                    !.th[t] = ThreadIdle]
           ELSE limiter' = [limiter EXCEPT
                    !.lock = 0,
                    !.th[t].pc = "sleep",
                    !.th[t].now = 0,
                    !.th[t].wake = limiter.clock + ToSleep(needed, limiter.rate)]
    /\ UNCHANGED <<rows, disk, detVars, pruneVars, cli>>

\* time.sleep returns, not before the time asked for; back to while True
WakeUp(t) ==
    /\ limiter.th[t].pc = "sleep"
    /\ limiter.clock >= limiter.th[t].wake
    /\ limiter' = [limiter EXCEPT !.th[t].pc = "loop", !.th[t].wake = 0]
    /\ UNCHANGED <<rows, disk, detVars, pruneVars, cli>>

\* catalogs of MaxRows hashed rows; a row carries its own path, except that
\* row 2 may carry the path of row 1 (the walker inserted the path again on
\* a later scan)
InitPrune ==
    /\ \E share \in [FileIds -> BOOLEAN],
          dat \in [FileIds -> PruneContents],
          mt \in [FileIds -> MtimeVals \ {""}] :
          /\ \A i \in FileIds : share[i] => i = 2
          /\ dat[1] = <<0, 0>>
          /\ mt[1] = "2021-01-01T00:00:00Z"
          /\ \A i \in FileIds : i > 2 => mt[i] # mt[1]
          /\ rows = {HashedRow(i, IF share[i] THEN PathOf(1) ELSE PathOf(i),
                               dat[i], mt[i]) : i \in FileIds}
    /\ \E ex \in [Paths -> BOOLEAN] :
          disk = [p \in Paths |-> [exists |-> ex[p], data |-> <<0, 0>>,
                                   readable |-> TRUE]]
    /\ disk0 = disk
    /\ rows0 = rows
    /\ prune = PruneIdle
    /\ durable = rows
    /\ cancelled = FALSE
    /\ det = DetIdle
    /\ cli = CliIdle
    /\ limiter = NoLimiter

PruneCall ==
    /\ prune.calls < MaxPruneCalls
    /\ \E dry \in BOOLEAN, strategy \in {"oldest", "newest"} :
          PruneBegin(dry, strategy, {}, {})
    /\ UNCHANGED <<rows, disk, cli>>

NextPrune ==
    \/ PruneCall
    \/ PruneGroup
    \/ PruneLoserDryRun
    \/ PruneLoserExecute
    \/ PruneGroupEnd
    \/ PruneReturn

SpecPrune == InitPrune /\ [][NextPrune]_vars

----------------------------------------------------------------------------
(* Properties of the pruner *)

\* an execute-mode prune call has returned
PruneExecuted == prune.pc = "returned" /\ ~ prune.dry_run

\* the plans of the groups the call processed
ProcessedGroups == {prune.stats.groups[i] : i \in DOMAIN prune.stats.groups}

\* the rows that shared the group's digest when the call started
OriginalMembers(g) ==
    {r \in PruneScope(rows0, prune.include, prune.exclude) : r.sha256 = g.sha256}

\* C1: after an execute-mode prune, for every processed group of which some
\* member's file existed before the prune, the keeper's path still exists.
C1_KeeperPathExists ==
    PruneExecuted =>
        \A g \in ProcessedGroups :
            (\E m \in OriginalMembers(g) : Exists(disk0, m.path_abs))
                => Exists(disk, g.keeper.path_abs)

\* C7 as stated: after an execute-mode prune with keep_strategy 'oldest' the
\* surviving keeper has the minimum mtime among all original members of its
\* group, also when files of some members were missing.
C7_KeeperOldestOfAllMembers ==
    (PruneExecuted /\ prune.keep_strategy = "oldest") =>
        \A g \in ProcessedGroups :
            /\ \E r \in rows : r.file_id = g.keeper.file_id
            /\ \A m \in OriginalMembers(g) :
                  parse_ts(g.keeper.mtime_utc) <= parse_ts(m.mtime_utc)

\* C7 amended: after an execute-mode prune with keep_strategy 'oldest' the
\* keeper's row survives and has the minimum mtime among the members whose
\* files existed when the group was processed (among all members when no
\* file existed).
C7_KeeperOldestOfCandidates ==
    (PruneExecuted /\ prune.keep_strategy = "oldest") =>
        \A g \in ProcessedGroups :
            /\ \E r \in rows : r = g.keeper
            /\ g.keeper.file_id \in g.candidates
            /\ \A m \in OriginalMembers(g) :
                  m.file_id \in g.candidates =>
                      parse_ts(g.keeper.mtime_utc) <= parse_ts(m.mtime_utc)

\* C7 witness: an execute-mode 'oldest' prune processed a group in which a
\* member with a missing file was older than the keeper, and removed a file.
C7_Witness ==
    /\ PruneExecuted
    /\ prune.keep_strategy = "oldest"
    /\ prune.stats.files_removed > 0
    /\ \E g \in ProcessedGroups :
          \E m \in OriginalMembers(g) :
              /\ m.file_id \notin g.candidates
              /\ parse_ts(m.mtime_utc) < parse_ts(g.keeper.mtime_utc)

----------------------------------------------------------------------------
(* detect_duplicates called once on a catalog that scans and earlier runs
   left behind *)

\* file contents: cA and cB have the same size, first byte and last byte;
\* cS is below small_file_threshold
cA == <<0, 0, 0>>
cB == <<0, 1, 0>>
cS == <<1>>

\* what a row and its file can look like when a run starts: the contents the
\* row was catalogued with, the state of the file now, the hash columns
FileKinds ==
    { [was |-> cA, now |-> cA, exists |-> TRUE,  readable |-> TRUE,  prior |-> "pending"],
      [was |-> cB, now |-> cB, exists |-> TRUE,  readable |-> TRUE,  prior |-> "pending"],
      [was |-> cS, now |-> cS, exists |-> TRUE,  readable |-> TRUE,  prior |-> "pending"],
      [was |-> cA, now |-> cA, exists |-> FALSE, readable |-> TRUE,  prior |-> "pending"],
      [was |-> cA, now |-> cA, exists |-> TRUE,  readable |-> FALSE, prior |-> "pending"],
      [was |-> cA, now |-> cA, exists |-> TRUE,  readable |-> TRUE,  prior |-> "scanned"],
      [was |-> cA, now |-> cA, exists |-> FALSE, readable |-> TRUE,  prior |-> "scanned"],
      [was |-> cA, now |-> cA, exists |-> TRUE,  readable |-> TRUE,  prior |-> "hashed"],
      [was |-> cA, now |-> cB, exists |-> TRUE,  readable |-> TRUE,  prior |-> "hashed"] }

\* the row of a kind: pending (walker only), scanned (scan.py process: quick
\* hash over io_chunk_bytes, then done), hashed (an earlier detection run),
\* blake3 (hash_all_blake3 without mirror_to_sha256 on a walker row),
\* missing and error (a run that found the file gone or could not read it)
KindRow(fid, path, k) ==
    LET base == NewRow(fid, path, Len(k.was), "2020-01-01T00:00:00+00:00")
    IN  CASE k.prior = "blake3" ->
                [base EXCEPT !.blake3 = Blake3Of(k.was),
                             !.state = "sha_verified"]
          [] k.prior = "missing" ->
                [base EXCEPT !.state = "missing", !.error_code = "not_found",
                             !.error_msg = "File not found on disk"]
          [] k.prior = "error" ->
                [base EXCEPT !.state = "error", !.error_code = "hash_failed",
                             !.error_msg = "Permission denied"]
          [] k.prior = "scanned" ->
                [base EXCEPT !.quick_hash = quick_hash(k.was, io_chunk_bytes),
                             !.state = "done"]
          [] k.prior = "hashed" ->
                [base EXCEPT !.quick_hash = quick_hash(k.was, cfg_quick_hash_bytes),
                             !.sha256 = Sha256Of(k.was),
                             !.state = "done"]
          [] OTHER -> base

KindFile(k) == [exists |-> k.exists, data |-> k.now, readable |-> k.readable]

\* the path of row i: the last row has the extension .t or .u
RowPath(i, alt) == IF alt /\ i = MaxRows THEN AltPathOf(i) ELSE PathOf(i)

\* a catalog of MaxRows rows of the given kinds, nothing running
InitCatalog(kinds) ==
    /\ \E kind \in [FileIds -> kinds], alt \in BOOLEAN :
          /\ rows = {KindRow(i, RowPath(i, alt), kind[i]) : i \in FileIds}
          /\ disk = [p \in {RowPath(i, alt) : i \in FileIds} |->
                        KindFile(kind[CHOOSE i \in FileIds : RowPath(i, alt) = p])]
    /\ disk0 = disk
    /\ rows0 = rows
    /\ prune = PruneIdle
    /\ durable = rows
    /\ cancelled = FALSE
    /\ det = DetIdle
    /\ cli = CliIdle
    /\ limiter = NoLimiter

InitDetect == InitCatalog(FileKinds)

\* the modes a run is started in
DetectFlagSets ==
    { DefaultFlags,
      [DefaultFlags EXCEPT !.network_friendly = TRUE],
      [DefaultFlags EXCEPT !.progressive = TRUE],
      [DefaultFlags EXCEPT !.use_blake3 = TRUE],
      [DefaultFlags EXCEPT !.metadata_only = TRUE],
      [DefaultFlags EXCEPT !.include = {<<"a", "/">>}] }

DetectCall ==
    /\ \E flags \in DetectFlagSets : DetectBegin(flags)
    /\ UNCHANGED cli

NextDetect ==
    \/ DetectCall
    \/ MetadataScan
    \/ CreateCandidates
    \/ FetchPage
    \/ TaskStart
    \/ TaskFinish
    \/ Consume
    \/ FinalFlush
    \/ Shutdown
    \/ StageDone
    \/ PersistSamples
    \/ Analyze
    \/ Finalize
    \/ RaiseOut

SpecDetect == InitDetect /\ [][NextDetect]_vars

----------------------------------------------------------------------------
(* detect_duplicates interrupted by the user *)

\* the rows of an interrupted run: unhashed rows whose files are there, are
\* not, or cannot be read, and rows the scanner quick-hashed
CancelKinds ==
    {k \in FileKinds : \/ k.prior = "pending" /\ k.was \in {cA, cS}
                       \/ k.prior = "scanned" /\ k.exists}

InitDetectCancel == InitCatalog(CancelKinds)

\* the modes and pool sizes of an interrupted run
CancelFlagSets ==
    { DefaultFlags,
      [DefaultFlags EXCEPT !.max_workers = 2],
      [DefaultFlags EXCEPT !.progressive = TRUE] }

DetectCancelCall ==
    /\ \E flags \in CancelFlagSets : DetectBegin(flags)
    /\ UNCHANGED cli

NextDetectCancel ==
    \/ DetectCancelCall
    \/ SigInt
    \/ ProgressInterrupt
    \/ CreateCandidates
    \/ FetchPage
    \/ TaskStart
    \/ TaskFinish
    \/ Consume
    \/ FinalFlush
    \/ Shutdown
    \/ StageDone
    \/ PersistSamples
    \/ Analyze
    \/ Finalize
    \/ RaiseOut

SpecDetectCancel == InitDetectCancel /\ [][NextDetectCancel]_vars

----------------------------------------------------------------------------
(* Properties of detect_duplicates *)

\* the run has returned its statistics from the hashing pipeline
DetectReturned == det.pc = "returned" /\ ~ det.flags.metadata_only

\* a row the run is answerable for: active, inside the filters, big enough
InDetectScope(r) ==
    /\ Active(r)
    /\ PathFilter(det.flags, r)
    /\ r.size_bytes >= min_file_size

\* the files of two rows exist and hold the same bytes
SameContents(a, b) ==
    /\ Readable(disk, a.path_abs)
    /\ Readable(disk, b.path_abs)
    /\ disk[a.path_abs].data = disk[b.path_abs].data

\* C2: after an uncancelled run, any two rows in scope whose files exist with
\* byte-identical contents carry the same non-null confirmation digest,
\* whatever their names, extensions and earlier hash columns are
C2_IdenticalFilesShareDigest ==
    (DetectReturned /\ ~ cancelled) =>
        \A a \in rows, b \in rows :
            (/\ a.file_id # b.file_id
             /\ InDetectScope(a) /\ InDetectScope(b)
             /\ SameContents(a, b))
                => (a.sha256 # NULL /\ a.sha256 = b.sha256)

\* C3: every group of rows reported after a run (same sha256 column, more
\* than one row) lies inside a group of the procedure that hashes every file:
\* the files of any two of its rows exist and have equal contents
C3_ReportedGroupsAreTrueDuplicates ==
    DetectReturned =>
        \A g \in ReportedGroups(rows, det.flags) :
            \A a \in g, b \in g : SameContents(a, b)

\* C8: a failure of the per-file operation on one row never aborts the stage
\* or the pipeline: the exception of a worker does not leave the call
C8_FileFailureNeverAborts == det.exc # "OSError"

\* the rows a stage of this run moved to its target state and committed
MovedTo(state) ==
    {r \in durable : /\ r.state = state
                     /\ \E q \in det.rows_start : /\ q.file_id = r.file_id
                                                  /\ q.state # state}

\* C9: when the flag is set during the quick-hash or the full-hash stage,
\* then at stage return the number of rows the run moved to quick_hashed
\* (sha_verified) and committed equals the number of tasks that completed
\* successfully before the flag was set
C9_CancelledStageWritesCompletions ==
    (/\ det.pc = "stage_done"
     /\ cancelled
     /\ FlushInsidePool(det.stage)
     /\ det.flag_stage = det.stage)
        => Cardinality(MovedTo(IF det.stage = "qh" THEN "quick_hashed"
                               ELSE "sha_verified")) = det.ok_before

\* C10: once the flag is set the call returns its partial statistics; it
\* never ends with the interrupted-statement error of the connection
C10_CancelledCallReturns == ~ (cancelled /\ det.exc = "OperationalError")

----------------------------------------------------------------------------
(* The dedupe command line: `catalog dedupe` (commands/dedupe.py
   run_from_args, the same flow as main of catalog/dedupe.py) and the script
   run_hash_dedupe.py *)

\* what the user can type at the [y/N] prompt
Answers == { <<"y">>, <<"Y">>, <<" ", "y", " ">>, <<"n">>, <<>>,
             <<"y", "e", "s">> }

RECURSIVE Strip(_)
\* str.strip() on an answer
Strip(s) ==
    IF s = <<>> THEN s
    ELSE IF Head(s) = " " THEN Strip(Tail(s))
    ELSE IF s[Len(s)] = " " THEN Strip(SubSeq(s, 1, Len(s) - 1))
    ELSE s

\* str.lower() on an answer
LowerAnswer(s) ==
    [i \in 1..Len(s) |-> IF s[i] = "Y" THEN "y" ELSE s[i]]

\* proceed = True; if not args.no_confirm: proceed = input(prompt).strip()
\* .lower() == "y"
Proceed(no_confirm, answer) ==
    no_confirm \/ LowerAnswer(Strip(answer)) = <<"y">>

\* the command lines of the model: --dry-run and --keep-newest only matter
\* with --delete-duplicates, --progressive only when hashing
CliArgSets ==
    {a \in [metadata_only : BOOLEAN, metadata_prune : BOOLEAN,
            delete_duplicates : BOOLEAN, dry_run : BOOLEAN,
            no_confirm : BOOLEAN, keep_newest : BOOLEAN,
            report_only : BOOLEAN, progressive : BOOLEAN] :
        /\ (~ a.delete_duplicates => ~ a.dry_run /\ ~ a.keep_newest)
        /\ (a.progressive => ~ a.metadata_only /\ ~ a.metadata_prune
                             /\ ~ a.report_only)}

\* if args.metadata_prune: args.metadata_only = True (and both skips)
EffectiveArgs(args) ==
    IF args.metadata_prune THEN [args EXCEPT !.metadata_only = TRUE] ELSE args

\* the keyword arguments of the detect_duplicates call
CliFlags(args) ==
    [DefaultFlags EXCEPT !.enable_quick_hash = ~ args.metadata_only,
                         !.enable_sha256 = ~ args.metadata_only,
                         !.progressive = args.progressive,
                         !.metadata_only = args.metadata_only]

\* `catalog dedupe` with detection: not args.report_only or
\* args.metadata_only
CliDetect(args) ==
    /\ cli.pc = "idle"
    /\ LET a == EffectiveArgs(args)
       IN  /\ ~ a.report_only \/ a.metadata_only
           /\ DetectBegin(CliFlags(a))
           /\ cli' = [cli EXCEPT !.pc = "detect", !.entry = "dedupe",
                                 !.args = a, !.stats_none = FALSE,
                                 !.rows_init = rows, !.disk_init = disk]

\* `catalog dedupe --report-only`: detection is skipped, stats stays None
CliReportOnly(args) ==
    /\ cli.pc = "idle"
    /\ LET a == EffectiveArgs(args)
       IN  /\ a.report_only /\ ~ a.metadata_only
           /\ cli' = [cli EXCEPT !.pc = "after_detect", !.entry = "dedupe",
                                 !.args = a, !.stats_none = TRUE,
                                 !.rows_init = rows, !.disk_init = disk]
    /\ UNCHANGED <<rows, disk, detVars, pruneVars, limiter>>

\* run_hash_dedupe.py: detection with both hash stages, always
CliHashDedupe(args) ==
    /\ cli.pc = "idle"
    /\ ~ args.metadata_only /\ ~ args.metadata_prune /\ ~ args.report_only
    /\ DetectBegin(CliFlags(args))
    /\ cli' = [cli EXCEPT !.pc = "detect", !.entry = "run_hash_dedupe",
                          !.args = args, !.stats_none = FALSE,
                          !.rows_init = rows, !.disk_init = disk]

\* detect_duplicates has returned: the summary is printed
CliSummary ==
    /\ cli.pc = "detect"
    /\ det.pc = "returned"
    /\ cli' = [cli EXCEPT !.pc = "after_detect",
                          !.events = Append(@, "summary")]
    /\ UNCHANGED <<rows, disk, detVars, pruneVars, limiter>>

\* detect_duplicates has raised: the exception ends the command
CliDetectFailed ==
    /\ cli.pc = "detect"
    /\ det.pc = "raised"
    /\ cli' = [cli EXCEPT !.pc = "failed"]
    /\ UNCHANGED <<rows, disk, detVars, pruneVars, limiter>>

\* the timestamps that end in Z
ZValues == {"2021-01-01T00:00:00Z"}

\* _parse_mtime(value): datetime.fromisoformat without the Z replacement of
\* parse_ts; whether fromisoformat reads a trailing Z depends on the
\* interpreter (reads_z), a value it cannot read counts as 0.0
parse_mtime(value, reads_z) ==
    IF value \in ZValues /\ ~ reads_z THEN 0 ELSE parse_ts(value)

\* the sort key of the metadata prune: (_parse_mtime(mtime), path.lower(),
\* file_id)
MetadataKeyLess(a, b, reads_z) ==
    LET ta == parse_mtime(a.mtime, reads_z)
        tb == parse_mtime(b.mtime, reads_z)
    IN  \/ ta < tb
        \/ ta = tb /\ StrLess(Lower(a.path), Lower(b.path))
        \/ ta = tb /\ Lower(a.path) = Lower(b.path) /\ a.file_id < b.file_id

\* sorted_members[0] of a metadata group
MetadataKeeper(members, reads_z) ==
    CHOOSE k \in members :
        \A m \in members : m = k \/ MetadataKeyLess(k, m, reads_z)

\* to_delete: the file_ids of sorted_members[1:] of every group
MetadataLosers(groups, reads_z) ==
    UNION {{m.file_id : m \in g.members \ {MetadataKeeper(g.members, reads_z)}} :
              g \in groups}

\* the `if args.metadata_prune:` block: the losers of the metadata groups
\* are deleted from files and the deletion is committed; the script
\* run_hash_dedupe.py goes on only when duplicate groups were found
CliMetadataPrune ==
    /\ cli.pc = "after_detect"
    /\ \E reads_z \in BOOLEAN :
          LET groups == IF cli.stats_none THEN {} ELSE det.stats.metadata_groups
              to_delete == IF cli.args.metadata_prune
                           THEN MetadataLosers(groups, reads_z) ELSE {}
          IN  /\ rows' = {r \in rows : r.file_id \notin to_delete}
              /\ durable' = IF to_delete # {} THEN rows' ELSE durable
              /\ cli' = [cli EXCEPT
                    !.pc = IF /\ cli.entry = "run_hash_dedupe"
                              /\ det.stats.duplicate_groups = 0
                           THEN "done" ELSE "delete_gate",
                    !.events = IF to_delete # {}
                               THEN Append(@, "metadata_delete") ELSE @]
    /\ UNCHANGED <<disk, cancelled, det, pruneVars, limiter>>

\* a command that refuses no deletion
DeleteRefused_Never(args) == FALSE

\* `if args.metadata_only:` under --delete-duplicates: the deletion is
\* refused
DeleteRefused(args) == args.metadata_only

\* the command goes on to the preview of the hash prune
PreviewDue ==
    /\ cli.args.delete_duplicates
    /\ ~ DeleteRefused(cli.args)
    /\ ~ cli.stats_none

\* `if args.delete_duplicates:` without a prune call: the flag is absent,
\* the deletion is refused (return 0), or detection did not run (SystemExit)
CliDeleteGate ==
    /\ cli.pc = "delete_gate"
    /\ ~ PreviewDue
    /\ cli' = [cli EXCEPT
            !.pc = IF cli.args.delete_duplicates /\ ~ DeleteRefused(cli.args)
                   THEN "failed" ELSE "done",
            !.events = IF cli.args.delete_duplicates /\ DeleteRefused(cli.args)
                       THEN Append(@, "refused") ELSE @]
    /\ UNCHANGED <<rows, disk, detVars, pruneVars, limiter>>

KeepStrategy(args) == IF args.keep_newest THEN "newest" ELSE "oldest"

\* preview = prune_hash_duplicates(cfg, ..., dry_run=True, keep_strategy)
CliPreview ==
    /\ cli.pc = "delete_gate"
    /\ PreviewDue
    /\ PruneBegin(TRUE, KeepStrategy(cli.args), {}, {})
    /\ cli' = [cli EXCEPT !.pc = "preview"]
    /\ UNCHANGED <<rows, disk>>

\* the execute call is due after the preview
ExecuteDue(answer) ==
    /\ prune.stats.files_considered # 0
    /\ ~ cli.args.dry_run
    /\ Proceed(cli.args.no_confirm, answer)

\* the preview has returned and is printed; the command ends when nothing
\* is eligible, under --dry-run, or when the answer is not y
CliStopAfterPreview ==
    /\ cli.pc = "preview"
    /\ prune.pc = "returned"
    /\ \E answer \in Answers :
          /\ ~ ExecuteDue(answer)
          /\ cli' = [cli EXCEPT
                !.pc = "done",
                !.events = IF prune.stats.files_considered # 0
                              /\ ~ cli.args.dry_run
                           THEN @ \o <<"preview", "prompt">>
                           ELSE Append(@, "preview")]
    /\ UNCHANGED <<rows, disk, detVars, pruneVars, limiter>>

\* the preview has returned and is printed, the user agrees (or
\* --no-confirm): result = prune_hash_duplicates(cfg, ..., dry_run=False)
CliExecute ==
    /\ cli.pc = "preview"
    /\ prune.pc = "returned"
    /\ \E answer \in Answers :
          /\ ExecuteDue(answer)
          /\ cli' = [cli EXCEPT
                !.pc = "execute",
                !.events = IF cli.args.no_confirm
                           THEN @ \o <<"preview", "execute">>
                           ELSE @ \o <<"preview", "prompt", "confirmed", "execute">>]
    /\ PruneBegin(FALSE, KeepStrategy(cli.args), {}, {})
    /\ UNCHANGED <<rows, disk>>

\* the execute call has returned: the result is printed
CliResult ==
    /\ cli.pc = "execute"
    /\ prune.pc = "returned"
    /\ cli' = [cli EXCEPT !.pc = "done"]
    /\ UNCHANGED <<rows, disk, detVars, pruneVars, limiter>>

\* the catalogs of a command-line run
CliKinds ==
    {k \in FileKinds : \/ k.prior = "pending" /\ k.exists /\ k.readable
                                              /\ k.was \in {cA, cS}
                       \/ k.prior = "hashed" /\ k.now = cA
                       \/ k.prior = "scanned" /\ ~ k.exists}

InitCli == InitCatalog(CliKinds)

CliStart ==
    \E args \in CliArgSets : \/ CliDetect(args)
                             \/ CliReportOnly(args)
                             \/ CliHashDedupe(args)

NextCli ==
    \/ CliStart
    \/ MetadataScan
    \/ CreateCandidates
    \/ FetchPage
    \/ TaskStart
    \/ TaskFinish
    \/ Consume
    \/ FinalFlush
    \/ Shutdown
    \/ StageDone
    \/ PersistSamples
    \/ Analyze
    \/ Finalize
    \/ RaiseOut
    \/ CliSummary
    \/ CliDetectFailed
    \/ CliMetadataPrune
    \/ CliDeleteGate
    \/ CliPreview
    \/ PruneGroup
    \/ PruneLoserDryRun
    \/ PruneLoserExecute
    \/ PruneGroupEnd
    \/ PruneReturn
    \/ CliStopAfterPreview
    \/ CliExecute
    \/ CliResult

SpecCli == InitCli /\ [][NextCli]_vars

----------------------------------------------------------------------------
(* Properties of the command line *)

\* the command has removed something: a file is gone from the disk or a row
\* from the catalog
CliRemoved ==
    \/ disk # cli.disk_init
    \/ {r.file_id : r \in rows} # {r.file_id : r \in cli.rows_init}

CliEventBefore(e, i) == \E j \in 1..(i - 1) : cli.events[j] = e

\* C4: a run of the dedupe command in metadata-only mode (--metadata-only,
\* or implied by --metadata-prune) unlinks no file and never calls
\* prune_hash_duplicates, also under --delete-duplicates
C4_MetadataOnlyNeverUnlinks ==
    (cli.pc # "idle" /\ cli.args.metadata_only) =>
        (disk = cli.disk_init /\ prune.calls = 0)

\* a metadata-only run with --delete-duplicates has ended, refused, on a
\* catalog with a hash group whose files exist
C4_Witness ==
    /\ cli.pc = "done"
    /\ cli.args.metadata_only
    /\ cli.args.delete_duplicates
    /\ \E i \in DOMAIN cli.events : cli.events[i] = "refused"
    /\ \E a \in rows, b \in rows :
          /\ a.file_id # b.file_id
          /\ a.sha256 # NULL /\ a.sha256 = b.sha256
          /\ Active(a) /\ Active(b)
          /\ Exists(disk, a.path_abs) /\ Exists(disk, b.path_abs)

\* C5: in a run with --delete-duplicates nothing is removed (no file, no
\* catalog row) unless the dry-run preview completed first and --no-confirm
\* was given or the user answered y; under --dry-run nothing is removed
C5_DeleteNeedsPreviewAndConsent ==
    (cli.pc # "idle" /\ cli.args.delete_duplicates /\ CliRemoved) =>
        /\ ~ cli.args.dry_run
        /\ CliEventBefore("preview", Len(cli.events) + 1)
        /\ \/ cli.args.no_confirm
           \/ CliEventBefore("confirmed", Len(cli.events) + 1)

\* C6: a run with --metadata-prune deletes catalog rows only after a
\* summary of the groups was shown and, unless --no-confirm was given, the
\* user confirmed
C6_MetadataPruneNeedsConsent ==
    \A i \in DOMAIN cli.events :
        cli.events[i] = "metadata_delete" =>
            /\ CliEventBefore("summary", i)
            /\ \/ cli.args.no_confirm
               \/ CliEventBefore("confirmed", i)

----------------------------------------------------------------------------
(* The dedupe command interrupted by the user during detection *)

\* the exit status of the process: run_from_args ends with `return 0` on
\* every path that returns, cli.main hands it to SystemExit; SystemExit with
\* a message and an exception that leaves the handler both end with status 1
CliExitCode ==
    CASE cli.pc = "done" -> 0
      [] cli.pc = "failed" -> 1
      [] OTHER -> -1

\* the command lines of an interrupted run
CliCancelArgSets ==
    {a \in CliArgSets : /\ ~ a.metadata_only /\ ~ a.metadata_prune
                        /\ ~ a.report_only /\ ~ a.delete_duplicates
                        /\ ~ a.no_confirm}

\* the catalogs of an interrupted command-line run
CliCancelKinds ==
    {k \in CancelKinds : k.exists /\ k.readable}

InitCliCancel == InitCatalog(CliCancelKinds)

CliCancelStart == \E args \in CliCancelArgSets : CliDetect(args)

\* the interrupt arrives while detect_duplicates runs under the command
CliSigInt == SigInt /\ cli.pc = "detect"

NextCliCancel ==
    \/ CliCancelStart
    \/ CliSigInt
    \/ ProgressInterrupt
    \/ CreateCandidates
    \/ FetchPage
    \/ TaskStart
    \/ TaskFinish
    \/ Consume
    \/ FinalFlush
    \/ Shutdown
    \/ StageDone
    \/ PersistSamples
    \/ Analyze
    \/ Finalize
    \/ RaiseOut
    \/ CliSummary
    \/ CliDetectFailed
    \/ CliMetadataPrune
    \/ CliDeleteGate

SpecCliCancel == InitCliCancel /\ [][NextCliCancel]_vars

\* C11: a dedupe command whose detection was interrupted by the user (the
\* flag was set by SIGINT) ends with exit status 130, and a command that
\* completes without an interrupt ends with exit status 0
C11_ExitCodes ==
    /\ (cli.pc \in {"done", "failed"} /\ cancelled) => CliExitCode = 130
    /\ (cli.pc = "done" /\ ~ cancelled) => CliExitCode = 0

----------------------------------------------------------------------------
(* detect_duplicates run twice on the same catalog and files *)

\* contents of the size and head of cA with another tail
cC == <<0, 0, 1>>

\* the rows of a catalog that is run twice: unhashed rows (one whose file is
\* gone), a row the scanner quick-hashed, rows an earlier run hashed
RerunKinds ==
    { [was |-> cA, now |-> cA, exists |-> TRUE,  readable |-> TRUE, prior |-> "pending"],
      [was |-> cC, now |-> cC, exists |-> TRUE,  readable |-> TRUE, prior |-> "pending"],
      [was |-> cS, now |-> cS, exists |-> TRUE,  readable |-> TRUE, prior |-> "pending"],
      [was |-> cA, now |-> cA, exists |-> FALSE, readable |-> TRUE, prior |-> "pending"],
      [was |-> cA, now |-> cA, exists |-> TRUE,  readable |-> TRUE, prior |-> "scanned"],
      [was |-> cA, now |-> cA, exists |-> TRUE,  readable |-> TRUE, prior |-> "hashed"],
      [was |-> cS, now |-> cS, exists |-> TRUE,  readable |-> TRUE, prior |-> "hashed"] }

InitRerun == InitCatalog(RerunKinds)

\* the modes of the first run
RerunFlagSets ==
    { DefaultFlags,
      [DefaultFlags EXCEPT !.progressive = TRUE],
      [DefaultFlags EXCEPT !.use_blake3 = TRUE],
      [DefaultFlags EXCEPT !.progressive = TRUE, !.use_blake3 = TRUE] }

RerunFirstCall ==
    /\ \E flags \in RerunFlagSets : DetectBegin(flags)
    /\ UNCHANGED cli

\* detect_duplicates called again after a call that returned, the catalog
\* and the files as that call left them
DetectAgain(flags) ==
    /\ det.pc = "returned"
    /\ det.run = 1
    /\ cancelled' = FALSE
    /\ det' = [DetIdle EXCEPT
            !.pc = IF StageAfter("begin", flags) = "none" THEN "analyze"
                   ELSE "select",
            !.flags = flags,
            !.stage = StageAfter("begin", flags),
            !.rows_start = rows,
            !.run = 2,
            !.first = [flags |-> det.flags, stats |-> det.stats,
                       rows_start |-> det.rows_start]]
    /\ UNCHANGED <<rows, disk, durable, pruneVars, limiter>>

\* the second run: the same flags, or the same flags without --progressive
RerunSecondCall ==
    /\ \E prog \in BOOLEAN :
          /\ prog => det.flags.progressive
          /\ DetectAgain([det.flags EXCEPT !.progressive = prog])
    /\ UNCHANGED cli

NextRerun ==
    \/ RerunFirstCall
    \/ RerunSecondCall
    \/ CreateCandidates
    \/ FetchPage
    \/ TaskStart
    \/ TaskFinish
    \/ Consume
    \/ FinalFlush
    \/ Shutdown
    \/ StageDone
    \/ PersistSamples
    \/ Analyze
    \/ Finalize

SpecRerun == InitRerun /\ [][NextRerun]_vars

\* the second run was started with the flags of the first
SecondRunSameFlags == det.run = 2 /\ det.flags = det.first.flags

\* C12: a second run with the same flags after a first uncancelled run, with
\* no change in between, reads no file and changes no row except for the
\* transition to done
C12_SecondRunReadsNothing ==
    SecondRunSameFlags =>
        /\ det.reads = {}
        /\ \A r \in rows :
              \E q \in det.rows_start :
                  /\ q.file_id = r.file_id
                  /\ (r = q \/ r = [q EXCEPT !.state = "done"])

\* the rows that the first run left in state error or missing
FailedInFirstRun ==
    {r \in det.rows_start : r.state \in {"error", "missing"}}

\* C13: when detect_duplicates is run twice back-to-back with the same
\* flags, files_processed of the second run equals the number of rows that
\* ended the first run in state error or missing
C13_SecondRunProcessesFailures ==
    (SecondRunSameFlags /\ det.pc = "returned") =>
        det.stats.files_processed = Cardinality(FailedInFirstRun)

RECURSIVE RunStage(_, _, _, _, _)
\* a hashing stage run to its end without interrupt: the result of every
\* candidate is written to its row (the digest, or missing / error)
RunStage(rs, cands, stage, d, flags) ==
    IF cands = {} THEN rs
    ELSE LET c   == CHOOSE x \in cands : TRUE
             res == ComputeTask(stage, c, d, flags)
             rs1 == IF res.status = "success"
                    THEN ApplyBatch(rs, stage, <<res>>)
                    ELSE MarkRow(rs, res)
         IN  RunStage(rs1, cands \ {c}, stage, d, flags)

\* the files table after a non-progressive run that returns: stage 1 over
\* qh_candidates, stage 2 over sha_candidates, finalization
DetectOutcome(rs, d, flags) ==
    LET rs1 == IF flags.enable_quick_hash
               THEN RunStage(rs, {CandRow(r, NULL) : r \in QhCandidates(rs, flags)},
                             "qh", d, flags)
               ELSE rs
        rs2 == IF flags.enable_sha256
               THEN RunStage(rs1, {CandRow(r, r.quick_hash) :
                                      r \in ShaCandidates(rs1, flags)},
                             "sha", d, flags)
               ELSE rs1
    IN  MarkDone(rs2)

\* the confirmation-hash groups of a catalog as sets of file_ids
GroupIds(rs, flags) ==
    {{f.file_id : f \in g} : g \in ReportedGroups(rs, flags)}

\* the second run was non-progressive after a progressive first run
NonProgressiveAfterProgressive ==
    /\ det.run = 2
    /\ det.pc = "returned"
    /\ det.first.flags.progressive
    /\ ~ det.flags.progressive

\* C14: from the same catalog and files, a progressive run followed by a
\* non-progressive run leaves the same confirmation-hash groups as the
\* non-progressive run alone
C14_ProgressiveThenPlainSameGroups ==
    NonProgressiveAfterProgressive =>
        GroupIds(rows, det.flags)
            = GroupIds(DetectOutcome(det.first.rows_start, disk, det.flags),
                       det.flags)

----------------------------------------------------------------------------
(* Further properties of the pruner *)

\* the plan entries written so far by the running or returned call
PlanEntries ==
    UNION {SeqToSet(g.duplicates) : g \in ProcessedGroups}
        \cup SeqToSet(prune.entries)

\* every duplicate digest of the catalog has its group plan, with one entry
\* per member other than the keeper
PlanComplete ==
    /\ \A d \in DuplicateDigests(rows0, prune.include, prune.exclude) :
          \E g \in ProcessedGroups : g.sha256 = d
    /\ \A g \in ProcessedGroups :
          {e.file_id : e \in SeqToSet(g.duplicates)}
              = {m.file_id : m \in OriginalMembers(g)} \ {g.keeper.file_id}

\* C15: in execute mode, when the unlink of a loser fails the failure is in
\* the errors list, the loser's row stays in the catalog, and the call goes
\* on: when it returns every group has its plan with every loser in it
C15_UnlinkFailureKeepsRow ==
    (prune.pc # "idle" /\ ~ prune.dry_run) =>
        /\ \A e \in PlanEntries :
              e.status = "error" =>
                  /\ \E i \in DOMAIN prune.stats.errors :
                        prune.stats.errors[i]
                            = [kind |-> "unlink", file_id |-> e.file_id]
                  /\ \E r \in rows : r.file_id = e.file_id
        /\ prune.pc = "returned" => PlanComplete

\* an execute-mode call has returned in which an unlink failed and a later
\* loser of the same group was unlinked and its row deleted
C15_Witness ==
    /\ PruneExecuted
    /\ \E g \in ProcessedGroups :
          \E i \in DOMAIN g.duplicates, j \in DOMAIN g.duplicates :
              /\ i < j
              /\ g.duplicates[i].status = "error"
              /\ g.duplicates[j].status = "deleted +db-pruned"

\* C16: a dry-run call leaves the filesystem and the catalog as they were,
\* commits nothing, reports files_removed = db_rows_removed =
\* bytes_reclaimed = 0, and returns the plan of every group with every loser
\* marked would-delete
C16_DryRunChangesNothing ==
    (prune.pc # "idle" /\ prune.dry_run) =>
        /\ rows = rows0
        /\ disk = disk0
        /\ durable = rows0
        /\ prune.stats.files_removed = 0
        /\ prune.stats.db_rows_removed = 0
        /\ prune.stats.bytes_reclaimed = 0
        /\ \A e \in PlanEntries : e.status = "would-delete"
        /\ prune.pc = "returned" => PlanComplete

\* a dry-run call has returned a plan with a loser whose file exists
C16_Witness ==
    /\ prune.pc = "returned"
    /\ prune.dry_run
    /\ prune.stats.potential_bytes_reclaimed > 0
    /\ \E e \in PlanEntries : Exists(disk, e.path)

\* no member of the group had its file on disk when the call started
AllMissing(g) == \A m \in OriginalMembers(g) : ~ Exists(disk0, m.path_abs)

\* the plan entries of the files the call unlinked
DeletedEntries ==
    {e \in PlanEntries : e.status \in {"deleted", "deleted +db-pruned"}}

RECURSIVE SumBytes(_)
\* the sum of size_bytes over a set of plan entries
SumBytes(S) ==
    IF S = {} THEN 0
    ELSE LET e == CHOOSE x \in S : TRUE
         IN  e.size_bytes + SumBytes(S \ {e})

\* C17: after an execute-mode call, a group all of whose members' files were
\* missing has no unlinked loser (every entry is missing), and files_removed
\* and bytes_reclaimed count the unlinked losers only: the group adds zero
\* to both
C17_AllMissingGroupRemovesNothing ==
    PruneExecuted =>
        /\ \A g \in ProcessedGroups :
              AllMissing(g) =>
                  \A e \in SeqToSet(g.duplicates) :
                      e.status \in {"missing", "missing +db-pruned"}
        /\ prune.stats.files_removed = Cardinality(DeletedEntries)
        /\ prune.stats.bytes_reclaimed = SumBytes(DeletedEntries)

\* an execute-mode call has processed a group whose files were all missing
\* and deleted rows of its losers
C17_Witness ==
    /\ PruneExecuted
    /\ prune.stats.db_rows_removed > 0
    /\ \E g \in ProcessedGroups : AllMissing(g) /\ g.duplicates # <<>>

----------------------------------------------------------------------------
(* The pruner run twice in execute mode with the same policy *)

PruneFirstCall ==
    /\ prune.calls = 0
    /\ \E strategy \in {"oldest", "newest"} : PruneBegin(FALSE, strategy, {}, {})
    /\ UNCHANGED <<rows, disk, cli>>

NextPruneTwice ==
    \/ PruneFirstCall
    \/ PruneAgain
    \/ PruneGroup
    \/ PruneLoserExecute
    \/ PruneGroupEnd
    \/ PruneReturn

SpecPruneTwice == InitPrune /\ [][NextPruneTwice]_vars

\* the group plans of the call before
PrevGroups == {prune.prev.groups[i] : i \in DOMAIN prune.prev.groups}

\* the losers the call before left in the catalog
RemainingLosers ==
    UNION {{e.file_id : e \in {x \in SeqToSet(h.duplicates) :
                x.status \notin {"deleted +db-pruned", "missing +db-pruned"}}} :
              h \in PrevGroups}

\* C18: a second execute-mode prune with the same policy keeps, in every
\* group, the keeper of the first, and acts only on losers the first left
\* behind; after a first prune without failures it unlinks no file and
\* deletes no row
C18_PruneRerunIdempotent ==
    prune.calls = 2 =>
        /\ \A g \in ProcessedGroups, h \in PrevGroups :
              g.sha256 = h.sha256 => g.keeper.file_id = h.keeper.file_id
        /\ \A e \in PlanEntries : e.file_id \in RemainingLosers
        /\ prune.prev.errors = <<>> => (rows = rows0 /\ disk = disk0)

----------------------------------------------------------------------------
(* The rate limiter under concurrent callers *)

\* a limiter just constructed, no thread inside acquire(), an empty catalog
InitLimiter ==
    /\ rows = {}
    /\ disk = <<>>
    /\ disk0 = disk
    /\ rows0 = rows
    /\ prune = PruneIdle
    /\ durable = rows
    /\ cancelled = FALSE
    /\ det = DetIdle
    /\ cli = CliIdle
    /\ \E rate_bps \in RateArgs, burst \in BurstArgs :
          limiter = NewLimiter(rate_bps, burst)

NextLimiter ==
    \/ ClockTick
    \/ \E t \in Threads, n \in ChunkSizes : AcquireCall(t, n)
    \/ \E t \in Threads : SampleClock(t)
    \/ \E t \in Threads : LockEnter(t)
    \/ \E t \in Threads : Refill(t)
    \/ \E t \in Threads : Take(t)
    \/ \E t \in Threads : WakeUp(t)

SpecLimiter == InitLimiter /\ [][NextLimiter]_vars

\* C19: with threads sampling the clock outside the lock, the bytes granted
\* up to clock reading T never exceed capacity + rate * T, no clock tick is
\* credited to the bucket twice, and tokens stays within 0..capacity
C19_GrantedWithinBudget ==
    /\ limiter.granted <= limiter.capacity + limiter.rate * limiter.clock
    /\ ~ limiter.twice
    /\ limiter.tokens >= 0
    /\ limiter.tokens <= limiter.capacity

\* a thread holds the lock with a clock sample older than self.last, after
\* refilled tokens have been granted
C19_Witness ==
    \E t \in Threads :
        /\ limiter.th[t].pc = "take"
        /\ limiter.lock = t
        /\ limiter.th[t].now < limiter.last
        /\ limiter.granted > limiter.capacity

----------------------------------------------------------------------------
(* detect_duplicates when the database refuses a batched update *)

\* the rows of such a run: unhashed rows whose files are there or are not
DbErrorKinds ==
    {k \in FileKinds : k.prior = "pending" /\ k.readable}

InitDbError == InitCatalog(DbErrorKinds)

DbErrorFlagSets ==
    { DefaultFlags,
      [DefaultFlags EXCEPT !.progressive = TRUE] }

DbErrorCall ==
    /\ \E flags \in DbErrorFlagSets : DetectBegin(flags)
    /\ UNCHANGED cli

\* cur.executemany(...) or con.commit() of a batch raises a database error
\* (database locked, disk full, I/O error): in the loop when the batch is
\* full, or in the flush after the loop; nothing catches it
BatchUpdateFails ==
    /\ \/ /\ det.pc = "flush"
          /\ det.batch # <<>>
          /\ det' = [det EXCEPT !.pc = "raising", !.exc = "DatabaseError"]
       \/ /\ det.pc = "consume"
          /\ \E i \in TasksIn("done") :
                /\ det.tasks[i].res.status = "success"
                /\ Len(det.batch) + 1 >= BatchLimit(det.stage)
                /\ det' = [det EXCEPT !.pc = "raising",
                                      !.exc = "DatabaseError",
                                      !.tasks[i].st = "consumed"]
    /\ UNCHANGED <<rows, disk, durable, cancelled, pruneVars, cli, limiter>>

NextDbError ==
    \/ DbErrorCall
    \/ BatchUpdateFails
    \/ CreateCandidates
    \/ FetchPage
    \/ TaskStart
    \/ TaskFinish
    \/ Consume
    \/ FinalFlush
    \/ Shutdown
    \/ StageDone
    \/ PersistSamples
    \/ Analyze
    \/ Finalize
    \/ RaiseOut

SpecDbError == InitDbError /\ [][NextDbError]_vars

\* C20: a database error during a batched update of a stage stops the stage
\* and is reported in the value detect_duplicates returns (an 'error' field
\* of the statistics): the call does not end with the error as an exception
C20_DbErrorReturnedInStats ==
    ~ (det.pc = "raised" /\ det.exc = "DatabaseError")

----------------------------------------------------------------------------
(* `catalog dedupe` when the catalog file does not exist *)

\* cfg.db.path
DbPath == <<"c", "a", "t", ".", "d", "b">>

\* no catalog file: the files of the corpus are there or not, no table
InitNoCatalog ==
    /\ rows = {}
    /\ \E ex \in [Paths -> BOOLEAN] :
          disk = [p \in Paths \cup {DbPath} |->
                    [exists |-> p # DbPath /\ ex[p], data |-> <<0, 0>>,
                     readable |-> TRUE]]
    /\ disk0 = disk
    /\ rows0 = rows
    /\ prune = PruneIdle
    /\ durable = rows
    /\ cancelled = FALSE
    /\ det = DetIdle
    /\ cli = CliIdle
    /\ limiter = NoLimiter

\* detect_duplicates when `not db_path.exists()`: the error is logged and
\* {"error": "Database not found"} is returned before connect
DetectNoDatabase(flags) ==
    /\ det.pc = "idle"
    /\ ~ disk[DbPath].exists
    /\ det' = [DetIdle EXCEPT !.pc = "returned", !.flags = flags,
                              !.stats = [error |-> "Database not found"]]
    /\ UNCHANGED <<rows, disk, durable, cancelled, pruneVars, limiter>>

\* run_from_args with detection: stats = detect_duplicates(...)
NoCatalogDetect(args) ==
    /\ cli.pc = "idle"
    /\ LET a == EffectiveArgs(args)
       IN  /\ ~ a.report_only \/ a.metadata_only
           /\ DetectNoDatabase(CliFlags(a))
           /\ cli' = [cli EXCEPT !.pc = "detect", !.entry = "dedupe",
                                 !.args = a, !.stats_none = FALSE,
                                 !.rows_init = rows, !.disk_init = disk]

\* the summary reads stats['files_processed'] of a dictionary that holds
\* 'error' only: KeyError ends the command
CliSummaryKeyError ==
    /\ cli.pc = "detect"
    /\ det.pc = "returned"
    /\ "files_processed" \notin DOMAIN det.stats
    /\ cli' = [cli EXCEPT !.pc = "failed"]
    /\ UNCHANGED <<rows, disk, detVars, pruneVars, limiter>>

\* --report-only: `if args.delete_duplicates:` with stats None raises
\* SystemExit; otherwise the command reaches the report block
NoCatalogGate ==
    /\ cli.pc = "delete_gate"
    /\ cli.stats_none
    /\ cli' = [cli EXCEPT !.pc = IF cli.args.delete_duplicates THEN "failed"
                                 ELSE "report"]
    /\ UNCHANGED <<rows, disk, detVars, pruneVars, limiter>>

\* get_duplicate_report(Path(cfg.db.path), ...): connect() makes the parent
\* directory and sqlite3 creates the file; the SELECT on files then fails
\* with sqlite3.OperationalError (no such table), which ends the command
NoCatalogReport ==
    /\ cli.pc = "report"
    /\ ~ disk[DbPath].exists
    /\ disk' = [disk EXCEPT ![DbPath].exists = TRUE]
    /\ cli' = [cli EXCEPT !.pc = "failed"]
    /\ UNCHANGED <<rows, detVars, pruneVars, limiter>>

NextNoCatalog ==
    \/ \E args \in CliArgSets : NoCatalogDetect(args)
    \/ \E args \in CliArgSets : CliReportOnly(args)
    \/ CliSummaryKeyError
    \/ CliMetadataPrune
    \/ NoCatalogGate
    \/ NoCatalogReport

SpecNoCatalog == InitNoCatalog /\ [][NextNoCatalog]_vars

\* C21: when the catalog file does not exist the command ends with a
\* non-zero status, having created no catalog file, run no stage and
\* touched no file
C21_MissingCatalogChangesNothing ==
    cli.pc \in {"done", "failed"} =>
        /\ CliExitCode # 0
        /\ disk = cli.disk_init
        /\ rows = cli.rows_init
        /\ det.stage = "none"
        /\ det.reads = {}

----------------------------------------------------------------------------
(* The metadata-only scan under path filters *)

\* copies of one file name in several directories
MetaPathOf(i) ==
    CASE i = 1 -> <<"a", "/", "x", ".", "t">>
      [] i = 2 -> <<"A", "/", "x", ".", "t">>
      [] i = 3 -> <<"b", "/", "x", ".", "t">>
      [] OTHER -> <<"b", "/", "y", ".", "t">>

\* the rows of such a catalog: catalogued by the walker or by the scanner
MetaKinds == {k \in FileKinds : k.exists /\ k.readable /\ k.was = k.now}

InitMetadata ==
    /\ \E kind \in [FileIds -> MetaKinds] :
          /\ rows = {KindRow(i, MetaPathOf(i), kind[i]) : i \in FileIds}
          /\ disk = [p \in {MetaPathOf(i) : i \in FileIds} |->
                        KindFile(kind[CHOOSE i \in FileIds : MetaPathOf(i) = p])]
    /\ disk0 = disk
    /\ rows0 = rows
    /\ prune = PruneIdle
    /\ durable = rows
    /\ cancelled = FALSE
    /\ det = DetIdle
    /\ cli = CliIdle
    /\ limiter = NoLimiter

\* metadata_only=True with include_prefixes / exclude_prefixes
MetaFlagSets ==
    { [DefaultFlags EXCEPT !.metadata_only = TRUE],
      [DefaultFlags EXCEPT !.metadata_only = TRUE, !.include = {<<"a", "/">>}],
      [DefaultFlags EXCEPT !.metadata_only = TRUE, !.exclude = {<<"b", "/">>}],
      [DefaultFlags EXCEPT !.metadata_only = TRUE, !.include = {<<"b">>}] }

MetadataCall ==
    /\ \E flags \in MetaFlagSets : DetectBegin(flags)
    /\ UNCHANGED cli

NextMetadata ==
    \/ MetadataCall
    \/ MetadataScan

SpecMetadata == InitMetadata /\ [][NextMetadata]_vars

\* the rows of the catalog inside the filters that carry the key of a group
FilteredWithKey(k) ==
    {r \in det.rows_start : /\ Active(r)
                            /\ PathFilter(det.flags, r)
                            /\ MetadataKey(r) = k}

\* C22: in metadata-only mode every member of a returned group satisfies the
\* include/exclude prefix filters, and a group is returned only if at least
\* two rows inside the filters share its (size_bytes, lowercased name, ext)
C22_MetadataGroupsInsideFilters ==
    (det.pc = "returned" /\ det.flags.metadata_only) =>
        \A g \in det.stats.metadata_groups :
            /\ \A m \in g.members :
                  build_path_filter_sql(det.flags.include, det.flags.exclude,
                                        m.path)
            /\ Cardinality(FilteredWithKey(g.key)) >= 2

----------------------------------------------------------------------------
(* Stored quick hashes against the configured sample window *)

\* rows whose files have not changed since they were catalogued
UnchangedKinds ==
    {k \in FileKinds : k.exists /\ k.readable /\ k.was = k.now}

InitQuickHash == InitCatalog(UnchangedKinds)

NextQuickHash ==
    \/ DetectCall
    \/ MetadataScan
    \/ CreateCandidates
    \/ FetchPage
    \/ TaskStart
    \/ TaskFinish
    \/ Consume
    \/ FinalFlush
    \/ Shutdown
    \/ StageDone
    \/ PersistSamples
    \/ Analyze
    \/ Finalize

SpecQuickHash == InitQuickHash /\ [][NextQuickHash]_vars

\* C23: for every row with a non-null quick_hash, whichever component wrote
\* it, the quick hash of the unchanged file over the configured window
\* quick_hash_bytes is the stored value
C23_QuickHashRecomputes ==
    \A r \in rows :
        r.quick_hash # NULL =>
            quick_hash(disk[r.path_abs].data, cfg_quick_hash_bytes) = r.quick_hash

----------------------------------------------------------------------------
(* The columns detect_duplicates leaves alone *)

\* a row without the columns the engine writes
FrameOf(r) ==
    [r EXCEPT !.quick_hash = NULL, !.h1 = NULL, !.h2 = NULL, !.sha256 = NULL,
              !.blake3 = NULL, !.state = "", !.error_code = "",
              !.error_msg = ""]

\* every mode of detect_duplicates, run to its end on the catalogs of unhashed
\* and scanner-hashed rows whose files are there, are gone or cannot be read
SpecFrame == InitDetectCancel /\ [][NextQuickHash]_vars

\* C24: detect_duplicates inserts and deletes no row of files, and changes no
\* column other than quick_hash, h1, h2, sha256, blake3, state, error_code
\* and error_msg: in the connection's view and in what is committed
C24_DetectWritesOnlyHashStateError ==
    det.pc # "idle" =>
        /\ {FrameOf(r) : r \in rows} = {FrameOf(r) : r \in det.rows_start}
        /\ Cardinality(rows) = Cardinality(det.rows_start)
        /\ {FrameOf(r) : r \in durable} = {FrameOf(r) : r \in det.rows_start}
        /\ Cardinality(durable) = Cardinality(det.rows_start)

\* a run has returned after it wrote digests to one row and an error to
\* another
C24_Witness ==
    /\ det.pc = "returned"
    /\ \E r \in rows : r \notin det.rows_start /\ r.state = "done"
    /\ \E r \in rows : r \notin det.rows_start /\ r.state \in {"missing", "error"}

----------------------------------------------------------------------------
(* The final transition to done, cancelled runs included *)

SpecFinalize == InitCliCancel /\ [][NextDetectCancel]_vars

\* the digest columns of a row
DigestsOf(r) ==
    [file_id |-> r.file_id, quick_hash |-> r.quick_hash, h1 |-> r.h1,
     h2 |-> r.h2, sha256 |-> r.sha256, blake3 |-> r.blake3]

\* C25: when detect_duplicates returns its statistics in a hashing mode,
\* also after cancellation, no row has state quick_hashed or sha_verified
\* together with a non-null sha256; and when the update to done is about to
\* run, no batch is pending and every digest written is committed
C25_DoneAfterLastFlush ==
    /\ (det.pc = "returned" /\ ~ det.flags.metadata_only) =>
            /\ \A r \in rows :
                  r.sha256 # NULL => r.state \notin {"quick_hashed", "sha_verified"}
            /\ durable = rows
    /\ det.pc = "finalize" =>
            /\ det.batch = <<>>
            /\ det.tasks = <<>>
            /\ {DigestsOf(r) : r \in durable} = {DigestsOf(r) : r \in rows}

\* a cancelled run has returned and moved a row it hashed to done
C25_Witness ==
    /\ det.pc = "returned"
    /\ cancelled
    /\ \E r \in rows : r.state = "done" /\ r \notin det.rows_start

----------------------------------------------------------------------------
(* The quick-hash candidate table *)

\* the active rows of the catalog at the start of the call that share the
\* size and the extension of a row
SizeExtGroup(f) ==
    {g \in det.rows_start : /\ g.state \notin {"error", "missing"}
                            /\ g.size_bytes = f.size_bytes
                            /\ g.ext = f.ext}

\* the quick-hash candidate table of the running call is filled
QhTableFilled ==
    /\ det.stage = "qh"
    /\ det.pc \in {"page", "consume", "flush", "shutdown", "stage_done"}

----------------------------------------------------------------------------
(* The keeper of a group, in the preview and in the execute call that
   follows it *)

\* a catalog of two duplicate groups
PairIds == 1..(MaxRows + 1)

\* rows 1 and 3 hold one digest, the other rows another one; a row carries
\* its own path, except that row 2 may carry the path of row 1
InitPrunePairs ==
    /\ \E share \in BOOLEAN,
          mt \in [PairIds -> {"2020-01-01T00:00:00+00:00",
                              "2022-01-01T00:00:00+00:00"}] :
          rows = {HashedRow(i, IF share /\ i = 2 THEN PathOf(1) ELSE PathOf(i),
                            IF i \in {1, 3} THEN <<0, 0>> ELSE <<1>>, mt[i]) :
                     i \in PairIds}
    /\ \E ex \in [{PathOf(i) : i \in PairIds} -> BOOLEAN] :
          disk = [p \in {PathOf(i) : i \in PairIds} |->
                    [exists |-> ex[p], data |-> <<0, 0>>, readable |-> TRUE]]
    /\ disk0 = disk
    /\ rows0 = rows
    /\ prune = PruneIdle
    /\ durable = rows
    /\ cancelled = FALSE
    /\ det = DetIdle
    /\ cli = CliIdle
    /\ limiter = NoLimiter

\* preview = prune_hash_duplicates(cfg, ..., dry_run=True, keep_strategy)
PrunePreviewCall ==
    /\ prune.calls = 0
    /\ \E strategy \in {"oldest", "newest"} : PruneBegin(TRUE, strategy, {}, {})
    /\ UNCHANGED <<rows, disk, cli>>

\* result = prune_hash_duplicates(cfg, ..., dry_run=False, keep_strategy)
\* after the preview has returned, on the state the preview saw
PruneExecuteCall ==
    /\ prune.pc = "returned"
    /\ prune.calls = 1
    /\ prune.dry_run
    /\ \E lst \in DuplicateHashLists(rows, prune.include, prune.exclude) :
          prune' = [PruneIdle EXCEPT
                      !.pc = IF lst = <<>> THEN "returned" ELSE "groups",
                      !.dry_run = FALSE,
                      !.keep_strategy = prune.keep_strategy,
                      !.include = prune.include, !.exclude = prune.exclude,
                      !.calls = 2,
                      !.duplicate_hashes = lst,
                      !.stats.hash_groups = Len(lst),
                      !.prev = [groups |-> prune.stats.groups,
                                errors |-> prune.stats.errors]]
    /\ disk0' = disk
    /\ rows0' = rows
    /\ UNCHANGED <<rows, disk, detVars, cli, limiter>>

NextPrunePairs ==
    \/ PrunePreviewCall
    \/ PruneExecuteCall
    \/ PruneGroup
    \/ PruneLoserDryRun
    \/ PruneLoserExecute
    \/ PruneGroupEnd
    \/ PruneReturn

SpecPrunePairs == InitPrunePairs /\ [][NextPrunePairs]_vars

\* a comes before b in the order of the keeper: mtime ascending for
\* 'oldest', descending for 'newest', then lowercased path, then file_id
KeeperOrderBefore(a, b) ==
    LET ta == parse_ts(a.mtime_utc)
        tb == parse_ts(b.mtime_utc)
        first == IF prune.keep_strategy = "newest" THEN ta > tb ELSE ta < tb
    IN  \/ first
        \/ ta = tb /\ StrLess(Lower(a.path_abs), Lower(b.path_abs))
        \/ ta = tb /\ Lower(a.path_abs) = Lower(b.path_abs)
                   /\ a.file_id < b.file_id

\* C27: in every processed group the keeper is the one candidate member that
\* comes before every other candidate in the order of the keeper, every
\* other member is a loser, and the execute call that follows a preview on
\* the same state keeps, in every group, the member the preview kept
C27_KeeperIsUniqueMinimum ==
    prune.pc = "returned" =>
        \A g \in ProcessedGroups :
            /\ g.keeper \in OriginalMembers(g)
            /\ g.keeper.file_id \in g.candidates
            /\ \A m \in OriginalMembers(g) :
                  (m.file_id \in g.candidates /\ m # g.keeper) =>
                      KeeperOrderBefore(g.keeper, m)
            /\ {g.duplicates[i].file_id : i \in DOMAIN g.duplicates} =
                  {m.file_id : m \in OriginalMembers(g)} \ {g.keeper.file_id}
            /\ \A h \in PrevGroups :
                  h.sha256 = g.sha256 => h.keeper = g.keeper
----------------------------------------------------------------------------
(* Progressive sampling of files that differ in the tail only *)

\* unhashed rows whose files are in place: two contents that differ in the
\* last byte only, and a small file
SampleKinds == {k \in RerunKinds : k.prior = "pending" /\ k.exists}

InitSample == InitCatalog(SampleKinds)

\* a progressive run, with SHA-256 or BLAKE3, with or without a prefix
SampleFlagSets ==
    { [DefaultFlags EXCEPT !.progressive = TRUE],
      [DefaultFlags EXCEPT !.progressive = TRUE, !.use_blake3 = TRUE],
      [DefaultFlags EXCEPT !.progressive = TRUE, !.max_workers = 2],
      [DefaultFlags EXCEPT !.progressive = TRUE, !.include = {<<"a", "/">>}] }

SampleFirstCall ==
    /\ \E flags \in SampleFlagSets : DetectBegin(flags)
    /\ UNCHANGED cli

\* the progressive run repeated with the same flags
SampleSecondCall ==
    /\ DetectAgain(det.flags)
    /\ UNCHANGED cli

NextSample ==
    \/ SampleFirstCall
    \/ SampleSecondCall
    \/ CreateCandidates
    \/ FetchPage
    \/ TaskStart
    \/ TaskFinish
    \/ Consume
    \/ FinalFlush
    \/ Shutdown
    \/ StageDone
    \/ PersistSamples
    \/ Analyze
    \/ Finalize

SpecSample == InitSample /\ [][NextSample]_vars

\* the first k bytes and the last k bytes of a file
HeadBytes(data, k) == SubSeq(data, 1, Min(k, Len(data)))
TailBytes(data, k) == SubSeq(data, Max(0, Len(data) - k) + 1, Len(data))

\* two candidates of the running progressive call, of equal size, whose
\* files agree on the first sample_bytes bytes and differ in the last
HeadTwins(a, b) ==
    /\ det.flags.progressive
    /\ a \in ProgCandidates(det.rows_start, det.flags)
    /\ b \in ProgCandidates(det.rows_start, det.flags)
    /\ a.file_id # b.file_id
    /\ a.size_bytes = b.size_bytes
    /\ Readable(disk, a.path_abs) /\ Readable(disk, b.path_abs)
    /\ Len(disk[a.path_abs].data) = a.size_bytes
    /\ Len(disk[b.path_abs].data) = b.size_bytes
    /\ HeadBytes(disk[a.path_abs].data, SampleBytes(det.flags))
         = HeadBytes(disk[b.path_abs].data, SampleBytes(det.flags))
    /\ TailBytes(disk[a.path_abs].data, SampleBytes(det.flags))
         # TailBytes(disk[b.path_abs].data, SampleBytes(det.flags))

\* the row of a file_id in the files table
RowNow(fid) == CHOOSE r \in rows : r.file_id = fid

\* the sha_candidates table of the progressive call is in place
ProgShaTableFilled ==
    /\ det.flags.progressive
    /\ det.stage = "sha"
    /\ det.pc \in {"page", "consume", "flush", "shutdown", "stage_done"}

\* a candidate other than a and b with the size and both samples of p
ThirdWithSamples(p, a, b) ==
    \E q \in SeqToSet(det.prog) :
        /\ q.file_id \notin {a.file_id, b.file_id}
        /\ q.size_bytes = p.size_bytes
        /\ q.h1 = p.h1
        /\ q.h2 = p.h2

----------------------------------------------------------------------------
(* Persisted samples in a repeated progressive run *)

\* the row a task was submitted for, as the files table held it when the
\* call started
RowAtStart(fid) == CHOOSE r \in det.rows_start : r.file_id = fid

\* the tasks of the running sampling stage whose worker has read the file
SampleReads ==
    {i \in TasksIn("done") :
        ReadsFile(det.stage, det.tasks[i].row, disk, det.flags)}

\* in a progressive run no head sample is read for a row that carried h1
\* when the call started
HeadNotReadAgain ==
    (det.flags.progressive /\ det.stage = "h1") =>
        \A i \in SampleReads : RowAtStart(det.tasks[i].row.file_id).h1 = NULL

\* in a progressive run no tail sample is read for a row that carried h2
\* when the call started
TailNotReadAgain ==
    (det.flags.progressive /\ det.stage = "h2") =>
        \A i \in SampleReads : RowAtStart(det.tasks[i].row.file_id).h2 = NULL

\* C29: in progressive mode a candidate row that carries a persisted h1
\* (resp. h2) from an earlier run is not read again for head (resp. tail)
\* sampling
C29_PersistedSamplesNotReadAgain == HeadNotReadAgain /\ TailNotReadAgain
----------------------------------------------------------------------------
(* Paging of the quick-hash and full-hash stages *)

\* the tasks submitted to the pool whose result the dispatcher has not taken
\* from as_completed
Unconsumed == {i \in DOMAIN det.tasks : det.tasks[i].st # "consumed"}

\* the dispatcher of a quick-hash or full-hash stage submits a page
SubmitsPage ==
    /\ det.stage \in {"qh", "sha"}
    /\ det.pc = "page"
    /\ det'.pc = "consume"

\* C30: in a quick-hash or full-hash stage the tasks submitted and not yet
\* consumed never exceed one page, and a page is submitted only when every
\* result of the page before it has been consumed
C30_OnePageInFlight ==
    [][ /\ (det.stage \in {"qh", "sha"} => Cardinality(Unconsumed) <= PAGE)
        /\ (SubmitsPage => /\ Unconsumed = {}
                           /\ Cardinality(DOMAIN det'.tasks) <= PAGE) ]_vars

\* a second page of a stage is submitted after a full first page was consumed
C30_Witness ==
    /\ det.stage \in {"qh", "sha"}
    /\ det.pc = "consume"
    /\ det.last_rowid > PAGE
    /\ Unconsumed # {}
    /\ Cardinality(det.submitted) > PAGE
----------------------------------------------------------------------------
(* Keyset paging: one task per candidate row *)

\* the rows of the stage's table that its page query can select: all of
\* them, in stage h1 those without a head sample
Pageable(j) == det.stage = "h1" => PagedTable[j].h1 = NULL

\* the dispatcher submits a page of any stage
SubmitsTasks == det.pc = "page" /\ det'.pc = "consume"

\* the dispatcher leaves the page loop of a stage with the flag not set
LeavesLoop == det.pc = "page" /\ det'.pc = LoopExit(det.stage) /\ ~ cancelled

\* a pool thread takes a task or finishes one
WorkerStep ==
    \E i \in DOMAIN det.tasks :
        /\ i \in DOMAIN det'.tasks
        /\ \/ det.tasks[i].st = "queued" /\ det'.tasks[i].st = "running"
           \/ det.tasks[i].st = "running" /\ det'.tasks[i].st = "done"

\* C31: within a stage each file_id is in at most one row of the candidate
\* table; a page holds exactly the selectable rows after the last rowid of
\* the page before, none of them submitted before, and without cancellation
\* the loop ends only when no selectable row is left; the batch holds at most
\* one result per file_id, and a worker's step writes nothing to files
C31_OneTaskPerCandidate ==
    [][ /\ det.pc \in {"page", "consume"} =>
              \A i, j \in DOMAIN PagedTable :
                  PagedTable[i].file_id = PagedTable[j].file_id => i = j
        /\ \A i, j \in DOMAIN det.batch :
              det.batch[i].file_id = det.batch[j].file_id => i = j
        /\ SubmitsTasks =>
              /\ \A i \in DOMAIN det'.tasks : i > det.last_rowid
              /\ det'.last_rowid > det.last_rowid
              /\ \A j \in DOMAIN PagedTable :
                    (j > det.last_rowid /\ j <= det'.last_rowid /\ Pageable(j))
                        => j \in DOMAIN det'.tasks
              /\ \A i \in DOMAIN det'.tasks :
                    det'.tasks[i].row = PagedTable[i]
        /\ LeavesLoop =>
              \A j \in DOMAIN PagedTable : j > det.last_rowid => ~ Pageable(j)
        /\ WorkerStep => rows' = rows /\ durable' = durable ]_vars

\* the last page of a stage of more than one page has been consumed: every
\* row of the table went to a task
C31_Witness ==
    /\ det.stage \in {"qh", "sha"}
    /\ det.pc = "page"
    /\ ~ cancelled
    /\ Len(PagedTable) > PAGE
    /\ det.last_rowid = Len(PagedTable)
    /\ \A i \in DOMAIN det.tasks : det.tasks[i].st = "consumed"
----------------------------------------------------------------------------
(* The limiter's lock and the sleep of acquire() *)

\* the threads inside time.sleep
Sleepers == {t \in Threads : limiter.th[t].pc = "sleep"}

\* C32: no thread holds the limiter's lock while it sleeps; the lock is held
\* only by a thread doing the token arithmetic (refill, comparison, take)
C32_NoSleepInsideLock ==
    /\ \A t \in Sleepers : limiter.lock # t
    /\ limiter.lock # 0 => limiter.th[limiter.lock].pc \in {"refill", "take"}

\* while one caller sleeps for tokens, another caller is inside the critical
\* section with enough tokens for its request
C32_Witness ==
    \E t \in Sleepers :
        \E u \in Threads \ {t} :
            /\ limiter.lock = u
            /\ limiter.th[u].pc = "take"
            /\ limiter.tokens >= limiter.th[u].n
----------------------------------------------------------------------------
(* acquire() under a clock that never stops *)

\* time.monotonic() moves on by one tick while every thread is outside
\* acquire() or asleep (the token arithmetic takes no time).  Readings above
\* MaxClock are kept relative: the clock stays at MaxClock and self.last and
\* the wake-up times move back by one, not below 0; a last that old refills
\* the bucket to its capacity whatever its value, MaxClock * rate being at
\* least the capacity
TimePasses ==
    /\ \A t \in Threads : limiter.th[t].pc \in {"idle", "sleep"}
    /\ limiter' =
          IF limiter.clock < MaxClock
          THEN [limiter EXCEPT !.clock = @ + 1]
          ELSE [limiter EXCEPT
                    !.last = Max(@ - 1, 0),
                    !.th = [t \in Threads |->
                              [limiter.th[t] EXCEPT !.wake = Max(@ - 1, 0)]]]
    /\ UNCHANGED <<rows, disk, detVars, pruneVars, cli>>

NextAcquire ==
    \/ TimePasses
    \/ \E t \in Threads, n \in ChunkSizes : AcquireCall(t, n)
    \/ \E t \in Threads : SampleClock(t)
    \/ \E t \in Threads : LockEnter(t)
    \/ \E t \in Threads : Refill(t)
    \/ \E t \in Threads : Take(t)
    \/ \E t \in Threads : WakeUp(t)

\* time advances, a thread inside acquire() takes its next step, a sleep
\* ends, and a thread that asks for the lock again and again gets it
AcquireFairness ==
    /\ WF_vars(TimePasses)
    /\ \A t \in Threads :
          /\ WF_vars(SampleClock(t))
          /\ SF_vars(LockEnter(t))
          /\ WF_vars(Refill(t))
          /\ WF_vars(Take(t))
          /\ WF_vars(WakeUp(t))

SpecAcquire == InitLimiter /\ [][NextAcquire]_vars /\ AcquireFairness

\* the calls acquire(n) that are inside the call
InAcquire(t) == limiter.th[t].pc # "idle"

\* every call acquire(n) whose n the bucket can hold returns
AcquireWithinCapacityReturns ==
    \A t \in Threads :
        (InAcquire(t) /\ limiter.th[t].n <= limiter.capacity)
            ~> ~ InAcquire(t)

\* C33: every call acquire(n) with n > 0 eventually returns provided time
\* advances, also for a chunk length n above the bucket capacity
C33_AcquireReturns ==
    \A t \in Threads : InAcquire(t) ~> ~ InAcquire(t)
----------------------------------------------------------------------------
(* The worker count of network-friendly mode *)

\* network-friendly runs with max_workers not given (0) and given as 1, 2, 3
WorkerFlagSets ==
    {[DefaultFlags EXCEPT !.network_friendly = TRUE, !.max_workers = w] :
        w \in 0..cfg_max_workers}

WorkersCall ==
    /\ \E flags \in WorkerFlagSets : DetectBegin(flags)
    /\ UNCHANGED cli

NextWorkers ==
    \/ WorkersCall
    \/ CreateCandidates
    \/ FetchPage
    \/ TaskStart
    \/ TaskFinish
    \/ Consume
    \/ FinalFlush
    \/ Shutdown
    \/ StageDone
    \/ Analyze
    \/ Finalize

SpecWorkers == InitQuickHash /\ [][NextWorkers]_vars

\* in network-friendly mode with max_workers left to the configuration the
\* running tasks stay within the ceiling
CeilingWithConfiguredWorkers ==
    (det.flags.network_friendly /\ det.flags.max_workers = 0) =>
        Cardinality(TasksIn("running")) <= NetworkFriendlyWorkers

\* C34: in network-friendly mode the per-file worker tasks running at the
\* same time never exceed the ceiling, whatever max_workers value the caller
\* or the configuration supplies
C34_NetworkFriendlyCeiling ==
    det.flags.network_friendly =>
        Cardinality(TasksIn("running")) <= NetworkFriendlyWorkers
----------------------------------------------------------------------------
(* Digest columns that are written when they hold a value *)

\* rows a scan and hash_all_blake3 left behind: unhashed rows, a small file,
\* a scanner-hashed row, and rows that carry a BLAKE3 digest of the contents
\* the file had, the file the same or rewritten since
CoalesceKinds ==
    { [was |-> cA, now |-> cA, exists |-> TRUE, readable |-> TRUE, prior |-> "pending"],
      [was |-> cS, now |-> cS, exists |-> TRUE, readable |-> TRUE, prior |-> "pending"],
      [was |-> cA, now |-> cA, exists |-> TRUE, readable |-> TRUE, prior |-> "scanned"],
      [was |-> cA, now |-> cA, exists |-> TRUE, readable |-> TRUE, prior |-> "blake3"],
      [was |-> cA, now |-> cB, exists |-> TRUE, readable |-> TRUE, prior |-> "blake3"] }

InitCoalesce == InitCatalog(CoalesceKinds)

CoalesceFlagSets ==
    { DefaultFlags,
      [DefaultFlags EXCEPT !.use_blake3 = TRUE],
      [DefaultFlags EXCEPT !.progressive = TRUE],
      [DefaultFlags EXCEPT !.progressive = TRUE, !.use_blake3 = TRUE] }

CoalesceCall ==
    /\ \E flags \in CoalesceFlagSets : DetectBegin(flags)
    /\ UNCHANGED cli

NextCoalesce ==
    \/ CoalesceCall
    \/ CreateCandidates
    \/ FetchPage
    \/ TaskStart
    \/ TaskFinish
    \/ Consume
    \/ FinalFlush
    \/ Shutdown
    \/ StageDone
    \/ PersistSamples
    \/ Analyze
    \/ Finalize

SpecCoalesce == InitCoalesce /\ [][NextCoalesce]_vars

\* the step keeps a stored value v: the new value w is v, or one of them is
\* NULL
KeepsStored(v, w) == v = NULL \/ w = NULL \/ w = v

\* no step replaces a stored quick_hash or sha256 by another value
QuickHashAndShaKept ==
    [][ \A r \in rows : \A q \in rows' :
            q.file_id = r.file_id =>
                /\ KeepsStored(r.quick_hash, q.quick_hash)
                /\ KeepsStored(r.sha256, q.sha256) ]_vars

\* C35: no write of detect_duplicates replaces a non-null quick_hash, sha256
\* or blake3 value of a row by a different non-null value
C35_StoredDigestsKept ==
    [][ \A r \in rows : \A q \in rows' :
            q.file_id = r.file_id =>
                /\ KeepsStored(r.quick_hash, q.quick_hash)
                /\ KeepsStored(r.sha256, q.sha256)
                /\ KeepsStored(r.blake3, q.blake3) ]_vars
----------------------------------------------------------------------------
(* The confirmation digest of a BLAKE3 run *)

\* the rows that received a confirmation digest in the running call
ConfirmedInRun ==
    {r \in rows : /\ r.sha256 # NULL
                  /\ RowAtStart(r.file_id).sha256 = NULL}

\* the row carries the BLAKE3 digest of its file in blake3 and in sha256
Blake3Mirrored(r) ==
    /\ r.blake3 = Blake3Of(disk[r.path_abs].data)
    /\ r.sha256 = r.blake3

\* in a BLAKE3 run the rows of at least small_file_threshold bytes that
\* receive a confirmation digest carry it in both columns
Blake3ForLargeFiles ==
    (det.pc # "idle" /\ det.flags.use_blake3) =>
        \A r \in ConfirmedInRun :
            r.size_bytes >= small_file_threshold => Blake3Mirrored(r)

\* C36: when BLAKE3 is selected, every row that receives a confirmation
\* digest in the run has the BLAKE3 digest of its file in the blake3 column
\* and the same value in sha256, files below small_file_threshold included
C36_Blake3WrittenAndMirrored ==
    (det.pc # "idle" /\ det.flags.use_blake3) =>
        \A r \in ConfirmedInRun : Blake3Mirrored(r)
----------------------------------------------------------------------------
(* hash_all_blake3, and rows in state error or missing *)

\* a selection of hash_all_blake3 that leaves out the test on state
HashAllCandidates_AnyState(rs, force, include, exclude) ==
    {f \in rs : /\ (~ force => f.blake3 \in {NULL, EmptyText})
                /\ build_path_filter_sql(include, exclude, f.path_abs)}

\* the rows hash_all_blake3 selects: active rows, without a BLAKE3 digest
\* unless force, inside the path filter
HashAllCandidates(rs, force, include, exclude) ==
    {f \in rs : /\ Active(f)
                /\ (~ force => f.blake3 \in {NULL, EmptyText})
                /\ build_path_filter_sql(include, exclude, f.path_abs)}

\* compute(row) of hash_all_blake3 and the UPDATE its result is routed to
HashAllRow(f, d, force, mirror) ==
    IF f.blake3 \notin {NULL, EmptyText} /\ ~ force THEN f
    ELSE IF ~ Exists(d, f.path_abs)
    THEN [f EXCEPT !.state = "missing", !.error_code = "not_found",
                   !.error_msg = "File not found on disk (path)",
                   !.blake3 = NULL]
    ELSE IF ~ Readable(d, f.path_abs)
    THEN [f EXCEPT !.state = "error", !.error_code = "hash_failed",
                   !.error_msg = "Permission denied (path)",
                   !.blake3 = NULL]
    ELSE [f EXCEPT !.blake3 = Blake3Of(d[f.path_abs].data),
                   !.state = IF @ \in {"error", "missing"} THEN @
                             ELSE "sha_verified",
                   !.sha256 = IF mirror THEN Blake3Of(d[f.path_abs].data)
                              ELSE @]

\* hash_all_blake3(cfg, force, include_prefixes, mirror_to_sha256) run to its
\* end between calls of detect_duplicates
HashAllBlake3 ==
    /\ det.pc \in {"idle", "returned"}
    /\ \E force, mirror \in BOOLEAN, include \in {{}, {<<"a", "/">>}} :
          LET cand == HashAllCandidates(rows, force, include, {})
          IN  rows' = {IF f \in cand THEN HashAllRow(f, disk, force, mirror)
                       ELSE f : f \in rows}
    /\ durable' = rows'
    /\ UNCHANGED <<disk, cancelled, det, pruneVars, cli, limiter>>

\* rows of earlier runs: unhashed rows, one whose file is gone, and rows an
\* earlier run left in state missing or error whose files are in place now
AbsorbingKinds ==
    { [was |-> cA, now |-> cA, exists |-> TRUE,  readable |-> TRUE, prior |-> "pending"],
      [was |-> cA, now |-> cA, exists |-> FALSE, readable |-> TRUE, prior |-> "pending"],
      [was |-> cA, now |-> cA, exists |-> TRUE,  readable |-> TRUE, prior |-> "missing"],
      [was |-> cA, now |-> cA, exists |-> TRUE,  readable |-> TRUE, prior |-> "error"] }

InitAbsorbing == InitCatalog(AbsorbingKinds)

AbsorbingCall ==
    /\ \E flags \in DetectFlagSets : DetectBegin(flags)
    /\ UNCHANGED cli

NextAbsorbing ==
    \/ HashAllBlake3
    \/ AbsorbingCall
    \/ MetadataScan
    \/ CreateCandidates
    \/ FetchPage
    \/ TaskStart
    \/ TaskFinish
    \/ Consume
    \/ FinalFlush
    \/ Shutdown
    \/ StageDone
    \/ PersistSamples
    \/ Analyze
    \/ Finalize

SpecAbsorbing == InitAbsorbing /\ [][NextAbsorbing]_vars

Failed(r) == r.state \in {"error", "missing"}

\* the file_ids in the candidate tables and the metadata groups of the call
InCandidateSets ==
    {p.file_id : p \in SeqToSet(det.table)}
        \cup {p.file_id : p \in SeqToSet(det.prog)}
        \cup UNION {{m.file_id : m \in g.members} : g \in det.stats.metadata_groups}

\* C37: a row in state error or missing is not changed by any step of
\* detect_duplicates (any mode) or of hash_all_blake3 (with or without
\* force), is in no candidate table or metadata group built while it is in
\* that state, and is no candidate of hash_all_blake3
C37_FailedRowsAbsorbing ==
    [][ /\ \A r \in rows : Failed(r) => (r \in rows' /\ (r \in durable => r \in durable'))
        /\ (det.pc \in {"select", "metadata"} =>
              \A r \in rows : Failed(r) => r.file_id \notin InCandidateSets')
        /\ \A r \in rows :
              Failed(r) =>
                  \A force \in BOOLEAN :
                      r \notin HashAllCandidates(rows, force, {}, {}) ]_vars

\* a detection run and hash_all_blake3 with force have both written rows of a
\* catalog that holds a failed row whose file is in place again
C37_Witness ==
    /\ det.pc = "returned"
    /\ \E r \in rows0 : Failed(r) /\ Readable(disk, r.path_abs) /\ r \in rows
    /\ \E r \in rows : r.blake3 # NULL /\ r.sha256 # r.blake3
    /\ \E r \in rows : r.state = "done"
----------------------------------------------------------------------------
(* Tasks of the page after the cancel flag was seen *)

\* the dispatcher has seen the flag and left the page loop of the stage
FlagObserved ==
    /\ cancelled
    /\ det.pc \in {"flush", "shutdown"}

\* the tasks of the page no pool thread has taken yet
NotStarted == TasksIn("queued")

\* C38: once the dispatcher has observed the cancel flag, no per-file task
\* that has not yet started is started
C38_NoTaskStartsAfterCancel ==
    [][ FlagObserved =>
            \A i \in NotStarted :
                i \in DOMAIN det'.tasks /\ det'.tasks[i].st = "queued" ]_vars
----------------------------------------------------------------------------
(* Rows outside the path filter *)

\* a call of detect_duplicates with include or exclude prefixes is running
FilteredRun ==
    /\ det.pc \notin {"idle", "returned"}
    /\ (det.flags.include # {} \/ det.flags.exclude # {})

\* the rows that fail the path filter of the call
OutsideFilter == {r \in rows : ~ PathFilter(det.flags, r)}

\* no step of a filtered call before its final update changes a row outside
\* the filter
StagesKeepOutsideRows ==
    [][ (FilteredRun /\ det.pc # "finalize") =>
            \A r \in OutsideFilter : r \in rows' ]_vars

\* C39: detect_duplicates called with include or exclude prefixes leaves
\* every column, state included, of every row that fails the path filter
\* unchanged
C39_OutsideFilterUnchanged ==
    [][ FilteredRun => \A r \in OutsideFilter : r \in rows' ]_vars

====
